---- MODULE Spec2Model ----
(***************************************************************************)
(* A model of the jsr npm CLI (jsr-io/jsr-npm): the package identity       *)
(* parser JsrPackage, the project locator findProjectDir, the adapter      *)
(* selection getPkgManager and the registry configuration writers          *)
(* setupNpmRc and setupBunfigToml.                                         *)
(*                                                                         *)
(* A JavaScript string is a sequence of one-character strings, so that     *)
(* regular expressions, includes, startsWith, endsWith and indexOf are     *)
(* computed position by position as the engine computes them.  A value of  *)
(* type `string | null` is Null or Some(s).                                *)
(***************************************************************************)
EXTENDS Integers, Sequences, FiniteSets

VARIABLES
    \* JsrPackage: the string given to JsrPackage.from, what it returned or
    \* threw, which pattern matched, and the strings made from the package
    pkgInput, pkgPc, pkgRes, pkgForm, pkgStr, pkgNpm, pkgReStr, pkgReNpm,
    \* findProjectDir: the directory it was started in (cwd), the arguments
    \* dir and result of the pending call, whether it has returned, and the
    \* directories from cwd upward as far as their contents are fixed
    fpCwd, fpDir, fpResult, fpPc, fs,
    \* getPkgManager: its argument pkgManagerName, npm_config_user_agent,
    \* the locals fromEnv and fromLockfile, and the adapter it returns
    pmFlag, pmEnv, pmPc, pmFromEnv, pmFromLockfile, pmAdapter,
    \* setupNpmRc, setupBunfigToml: the files .npmrc and bunfig.toml of the
    \* directory, and the calls made so far with the file each found and left
    npmrc, bunfig, rcLog,
    \* two invocations of setupNpmRc at once: .npmrc as they found it, where
    \* each invocation is, and what its readFile returned
    raceStart, racePc, raceContent,
    \* bin: process.argv.slice(2), the `scripts` of the package.json of the
    \* current directory, where the process is, its exit code, the
    \* subprocesses spawned so far (the last one pending while the process
    \* awaits it), the locals of the command being run, and the variables
    \* DENO_BIN_PATH and DENO_DISABLE_PEDANTIC_NODE_WARNINGS of process.env
    cliArgs, cliScripts, cliPc, cliExit, cliSpawned, cliCtx, cliEnv

pkgVars == <<pkgInput, pkgPc, pkgRes, pkgForm, pkgStr, pkgNpm, pkgReStr, pkgReNpm>>
findVars == <<fpCwd, fpDir, fpResult, fpPc, fs>>
pmVars == <<pmFlag, pmEnv, pmPc, pmFromEnv, pmFromLockfile, pmAdapter>>

raceVars == <<raceStart, racePc, raceContent>>
rcVars == <<npmrc, bunfig, rcLog, raceVars>>
cliVars == <<cliArgs, cliScripts, cliPc, cliExit, cliSpawned, cliCtx, cliEnv>>

vars == <<pkgVars, findVars, pmVars, rcVars, cliVars>>
exceptPkg == <<findVars, pmVars, rcVars, cliVars>>
exceptFind == <<pkgVars, pmVars, rcVars, cliVars>>
exceptFindPm == <<pkgVars, rcVars, cliVars>>
exceptRc == <<pkgVars, findVars, pmVars, cliVars>>

Null == <<>>
Some(v) == <<v>>

\* The parts of the program a specification does not run stay as they are.
PkgIdle ==
    /\ pkgInput = <<>>
    /\ pkgPc = "idle"
    /\ pkgRes = [ok |-> FALSE, error |-> "none"]
    /\ pkgForm = "none"
    /\ pkgStr = Null
    /\ pkgNpm = Null
    /\ pkgReStr = Null
    /\ pkgReNpm = Null

FindIdle ==
    /\ fpCwd = 0
    /\ fpDir = 0
    /\ fpResult = [projectDir |-> 0, pkgManagerName |-> Null, pkgJsonPath |-> Null, root |-> Null]
    /\ fpPc = "idle"
    /\ fs = <<>>

PmIdle ==
    /\ pmFlag = Null
    /\ pmEnv = Null
    /\ pmPc = "idle"
    /\ pmFromEnv = Null
    /\ pmFromLockfile = Null
    /\ pmAdapter = Null

\* A file is absent (reading it fails with ENOENT), a file with its content,
\* a file that can be read and not written ("readonly": writing it fails
\* with EACCES) or one that cannot be read ("denied": reading it fails with
\* EACCES).
AbsentFile == [st |-> "absent", content |-> <<>>]

\* No invocation of setupNpmRc runs beside another.
RaceIdle ==
    /\ raceStart = AbsentFile
    /\ racePc = <<>>
    /\ raceContent = <<>>

RcIdle ==
    /\ npmrc = AbsentFile
    /\ bunfig = AbsentFile
    /\ rcLog = <<>>
    /\ RaceIdle

\* The locals of a command before it has set any.
NoCtx ==
    [fn |-> "none", mode |-> "prod", script |-> <<>>, packages |-> <<>>,
     projectDir |-> Null, root |-> Null, step |-> "none",
     \* the exit codes of the subprocesses awaited so far and the error run caught
     codes |-> <<>>, error |-> "none",
     \* showPackageInfo: the meta.json it fetched and pkg.version after it
     \* resolved the version
     meta |-> [latest |-> [kind |-> "undefined", value |-> <<>>], versions |-> <<>>],
     version |-> <<>>,
     \* install: what pkgManager.isNpmrcSupported() returned, if bun was asked
     isNpmrcSupported |-> TRUE,
     \* YarnBerry.toPackageArgs: for every package where its version lookup is
     \* ("none" for a package that has a version)
     lookups |-> <<>>]

\* process.env without the two variables.
NoEnv == [DENO_BIN_PATH |-> Null, DENO_DISABLE_PEDANTIC_NODE_WARNINGS |-> Null]

CliIdle ==
    /\ cliArgs = <<>>
    /\ cliScripts = Null
    /\ cliPc = "idle"
    /\ cliExit = Null
    /\ cliSpawned = <<>>
    /\ cliCtx = NoCtx
    /\ cliEnv = NoEnv

-----------------------------------------------------------------------------
(* Characters                                                              *)

Lower ==
    {"a","b","c","d","e","f","g","h","i","j","k","l","m",
     "n","o","p","q","r","s","t","u","v","w","x","y","z"}
Digit == {"0","1","2","3","4","5","6","7","8","9"}
\* the characters `.` of a JavaScript regular expression does not match
LineTerminators == {"\n", "\r"}
\* the characters \s matches, among those the model uses
WhiteSpace == {" ", "\t", "\n", "\r"}

AllIn(s, i, j, Class) == \A k \in i..j : s[k] \in Class

StartsWithAt(s, i, pat) ==
    /\ i >= 1
    /\ i + Len(pat) - 1 <= Len(s)
    /\ \A k \in 1..Len(pat) : s[i + k - 1] = pat[k]

StartsWith(s, pat) == StartsWithAt(s, 1, pat)
EndsWith(s, pat) == Len(pat) <= Len(s) /\ StartsWithAt(s, Len(s) - Len(pat) + 1, pat)
Includes(s, pat) == \E i \in 1..(Len(s) + 1) : StartsWithAt(s, i, pat)

-----------------------------------------------------------------------------
(* JsrPackage (src/src/utils.ts)                                           *)

\* [a-z0-9-] under a case-insensitive flag
NameCharsIgnoreCase == Lower \cup Digit \cup {"-"} \cup {"A", "B", "C", "D"}

\* [a-z0-9-]
NameChars == Lower \cup Digit \cup {"-"}

\* /^<prefix>([a-z][a-z0-9-]+)<sep>([a-z0-9-]+)(@(.+))?$/ on input: group 1
\* is input[p+1..i], group 2 is input[i+Len(sep)+1..j].  Both groups are
\* greedy, so of the ways to match the engine reports the one with the
\* longest group 1 and then the longest group 2.  Group 4 is undefined
\* (here Null) when the optional version part took no part in the match.
PkgRegexMatch(input, prefix, sep) ==
    LET n == Len(input)
        p == Len(prefix)
        q == Len(sep)
        \* where group 1 may end: the prefix, [a-z][a-z0-9-]+, then the separator
        ScopeEnds == { i \in 1..n :
                        /\ StartsWith(input, prefix)
                        /\ i >= p + 2
                        /\ input[p + 1] \in Lower
                        /\ AllIn(input, p + 2, i, NameChars)
                        /\ StartsWithAt(input, i + 1, sep) }
        \* where group 2 may end: [a-z0-9-]+, then the end or @ and .+ to the end
        NameEnds(i) == { j \in 1..n :
                        /\ j >= i + q + 1
                        /\ AllIn(input, i + q + 1, j, NameChars)
                        /\ \/ j = n
                           \/ /\ j + 2 <= n
                              /\ input[j + 1] = "@"
                              /\ \A k \in (j + 2)..n : input[k] \notin LineTerminators }
        Ways == UNION { { <<i, j>> : j \in NameEnds(i) } : i \in ScopeEnds }
    IN  IF Ways = {} THEN [matched |-> FALSE]
        ELSE LET w == CHOOSE v \in Ways :
                        \A u \in Ways : u[1] < v[1] \/ (u[1] = v[1] /\ u[2] <= v[2])
             IN  [matched |-> TRUE,
                  g1 |-> SubSeq(input, p + 1, w[1]),
                  g2 |-> SubSeq(input, w[1] + q + 1, w[2]),
                  g4 |-> IF w[2] = n THEN Null ELSE Some(SubSeq(input, w[2] + 2, n))]

EXTRACT_REG(input) == PkgRegexMatch(input, <<"@">>, <<"/">>)
EXTRACT_REG_PROXY(input) == PkgRegexMatch(input, <<"@","j","s","r","/">>, <<"_","_">>)

\* new JsrPackage(scope, name, version)
JsrPackage(scope, name, version) == [scope |-> scope, name |-> name, version |-> version]

\* Which of the two patterns JsrPackage.from takes its groups from.
FromForm(input) ==
    IF EXTRACT_REG(input).matched THEN "exact"
    ELSE IF EXTRACT_REG_PROXY(input).matched THEN "proxy"
    ELSE "none"

\* JsrPackage.from: the package, or the error it throws.
JsrPackageFrom(input) ==
    LET exactMatch == EXTRACT_REG(input)
        proxyMatch == EXTRACT_REG_PROXY(input)
    IN  IF exactMatch.matched
        THEN [ok |-> TRUE, pkg |-> JsrPackage(exactMatch.g1, exactMatch.g2, exactMatch.g4)]
        ELSE IF proxyMatch.matched
        THEN [ok |-> TRUE, pkg |-> JsrPackage(proxyMatch.g1, proxyMatch.g2, proxyMatch.g4)]
        ELSE [ok |-> FALSE, error |-> "JsrPackageNameError"]

VersionSuffix(pkg) == IF pkg.version # Null THEN <<"@">> \o pkg.version[1] ELSE <<>>

ToNpmPackageDropsSeparator(pkg) ==
    <<"@","j","s","r","/">> \o pkg.scope \o <<"_">> \o pkg.name \o VersionSuffix(pkg)

\* JsrPackage.toNpmPackage
ToNpmPackage(pkg) ==
    <<"@","j","s","r","/">> \o pkg.scope \o <<"_","_">> \o pkg.name \o VersionSuffix(pkg)

\* JsrPackage.toString
ToString(pkg) == <<"@">> \o pkg.scope \o <<"/">> \o pkg.name \o VersionSuffix(pkg)

-----------------------------------------------------------------------------
(* The strings given to JsrPackage.from: every concatenation of a head, a  *)
(* scope, a separator, a name and a version part, well formed or not.      *)

PkgHeads == {<<>>, <<"@">>, <<"@","j","s","r","/">>, <<"@","@">>}
PkgScopes == {<<>>, <<"a">>, <<"a","b">>, <<"a","-">>, <<"a","0","b">>, <<"0","a">>,
              <<"-","a">>, <<"A","b">>, <<"j","s","r">>}
PkgSeps == {<<>>, <<"/">>, <<"_">>, <<"_","_">>}
PkgNames == {<<>>, <<"c">>, <<"0">>, <<"-">>, <<"c","d">>, <<"C">>, <<"c","_","_","d">>}
PkgVersionParts == {<<>>, <<"@">>, <<"@","1">>, <<"@","^","1",".","0">>, <<"@","1","@","2">>,
                    <<"@","1","\n">>, <<"@","_","_","a","@">>}

PkgInputs ==
    { h \o s \o p \o m \o v : h \in PkgHeads, s \in PkgScopes, p \in PkgSeps,
                              m \in PkgNames, v \in PkgVersionParts }

PkgInit ==
    /\ CliIdle
    /\ FindIdle
    /\ PmIdle
    /\ RcIdle
    /\ pkgInput \in PkgInputs
    /\ pkgPc = "start"
    /\ pkgRes = [ok |-> FALSE, error |-> "none"]
    /\ pkgForm = "none"
    /\ pkgStr = Null
    /\ pkgNpm = Null
    /\ pkgReStr = Null
    /\ pkgReNpm = Null

\* JsrPackage.from(pkgInput)
From ==
    /\ pkgPc = "start"
    /\ pkgRes' = JsrPackageFrom(pkgInput)
    /\ pkgForm' = FromForm(pkgInput)
    /\ pkgPc' = IF JsrPackageFrom(pkgInput).ok THEN "parsed" ELSE "thrown"
    /\ UNCHANGED <<pkgInput, pkgStr, pkgNpm, pkgReStr, pkgReNpm, exceptPkg>>

\* pkg.toString()
PkgToString ==
    /\ pkgPc = "parsed"
    /\ pkgStr = Null
    /\ pkgStr' = Some(ToString(pkgRes.pkg))
    /\ UNCHANGED <<pkgInput, pkgPc, pkgRes, pkgForm, pkgNpm, pkgReStr, pkgReNpm, exceptPkg>>

\* pkg.toNpmPackage()
PkgToNpmPackage ==
    /\ pkgPc = "parsed"
    /\ pkgNpm = Null
    /\ pkgNpm' = Some(ToNpmPackage(pkgRes.pkg))
    /\ UNCHANGED <<pkgInput, pkgPc, pkgRes, pkgForm, pkgStr, pkgReStr, pkgReNpm, exceptPkg>>

\* JsrPackage.from(pkg.toString())
FromToString ==
    /\ pkgStr # Null
    /\ pkgReStr = Null
    /\ pkgReStr' = Some([res |-> JsrPackageFrom(pkgStr[1]), form |-> FromForm(pkgStr[1])])
    /\ UNCHANGED <<pkgInput, pkgPc, pkgRes, pkgForm, pkgStr, pkgNpm, pkgReNpm, exceptPkg>>

\* JsrPackage.from(pkg.toNpmPackage())
FromToNpmPackage ==
    /\ pkgNpm # Null
    /\ pkgReNpm = Null
    /\ pkgReNpm' = Some([res |-> JsrPackageFrom(pkgNpm[1]), form |-> FromForm(pkgNpm[1])])
    /\ UNCHANGED <<pkgInput, pkgPc, pkgRes, pkgForm, pkgStr, pkgNpm, pkgReStr, exceptPkg>>

PkgNext == From \/ PkgToString \/ PkgToNpmPackage \/ FromToString \/ FromToNpmPackage

SpecPkg == PkgInit /\ [][PkgNext]_vars

-----------------------------------------------------------------------------
(* Claims about JsrPackage                                                 *)

\* C1: for every string JsrPackage.from accepts, toString() gives the
\* canonical form and toNpmPackage() the proxy form whichever form the
\* input had: an input in canonical form is its own toString(), an input in
\* proxy form is its own toNpmPackage(), toString() is matched by the
\* canonical pattern and toNpmPackage() by the proxy pattern, and parsing
\* either again gives the same scope, name and version.
C1_RoundTrip ==
    /\ (pkgStr # Null /\ pkgForm = "exact") => pkgStr[1] = pkgInput
    /\ (pkgNpm # Null /\ pkgForm = "proxy") => pkgNpm[1] = pkgInput
    /\ pkgReStr # Null =>
          /\ pkgReStr[1].form = "exact"
          /\ pkgReStr[1].res = pkgRes
    /\ pkgReNpm # Null =>
          /\ pkgReNpm[1].form = "proxy"
          /\ pkgReNpm[1].res = pkgRes

\* C1 witness: a versioned input in proxy form was parsed, printed both
\* ways and both outputs were parsed again.
C1_Witness ==
    /\ pkgForm = "proxy"
    /\ pkgPc = "parsed"
    /\ pkgRes.pkg.version # Null
    /\ pkgReStr # Null
    /\ pkgReNpm # Null

\* [a-z][a-z0-9-]+ and [a-z0-9-]+ as sets of strings, written out
\* independently of the matcher above
IdentChars ==
    {"a","b","c","d","e","f","g","h","i","j","k","l","m","n","o","p","q","r","s",
     "t","u","v","w","x","y","z","0","1","2","3","4","5","6","7","8","9","-"}
IsLetter(c) == c \in IdentChars \ {"0","1","2","3","4","5","6","7","8","9","-"}
MatchesScopePattern(s) ==
    Len(s) >= 2 /\ IsLetter(s[1]) /\ \A k \in 2..Len(s) : s[k] \in IdentChars
MatchesNamePattern(s) ==
    Len(s) >= 1 /\ \A k \in 1..Len(s) : s[k] \in IdentChars
\* nothing, or @ and one or more characters none of which ends a line
IsVersionPart(s) ==
    s = <<>> \/ (Len(s) >= 2 /\ s[1] = "@" /\ \A k \in 2..Len(s) : s[k] \notin {"\n", "\r"})
\* s is prefix, a scope, sep, a name and a version part, in this order
IsPkgString(s, prefix, sep) ==
    \E i \in 0..Len(s) : \E j \in i..Len(s) : \E k \in j..Len(s) : \E l \in k..Len(s) :
        /\ SubSeq(s, 1, i) = prefix
        /\ MatchesScopePattern(SubSeq(s, i + 1, j))
        /\ SubSeq(s, j + 1, k) = sep
        /\ MatchesNamePattern(SubSeq(s, k + 1, l))
        /\ IsVersionPart(SubSeq(s, l + 1, Len(s)))

-----------------------------------------------------------------------------
(* findProjectDir (src/src/utils.ts)                                       *)
(*                                                                         *)
(* A directory is its depth below the file system root, which is 0;        *)
(* path.dirname goes one up and leaves the root where it is.  fs[k] is the *)
(* contents of the k-th directory from cwd upward.  A directory's contents *)
(* are the names of the files in it and what its package.json, if any,     *)
(* holds under `workspaces`: "none" (no array), "member" (an array of      *)
(* globs that match the directory the walk started in) or "other" (an      *)
(* array of globs that do not).                                            *)

MaxDepth == 2

FileNames ==
    {"package.json", "pnpm-workspace.yaml", "package-lock.json", "bun.lockb",
     "bun.lock", "yarn.lock", "pnpm-lock.yaml"}

DirContents ==
    { c \in [files : SUBSET FileNames, workspaces : {"none", "member", "other"}] :
        "package.json" \notin c.files => c.workspaces = "none" }

\* The contents of the file systems that are fixed before the walk starts.
FixedDirContents ==
    { c \in DirContents : c.files \subseteq {"package.json", "pnpm-workspace.yaml", "yarn.lock"} }

\* All sequences of length n over S.
SeqsOfLen(S, n) == [1..n -> S]

\* path.dirname(dir)
Dirname(dir) == IF dir = 0 THEN 0 ELSE dir - 1

\* await fileExists(path.join(dir, name)), given the contents of dir
FileExists(c, name) == name \in c.files

\* Lines 89-109 with the manifest recorded anew in every directory that has one.
RecordManifestNearestRoot(result, dir, c) ==
    IF FileExists(c, "package.json")
    THEN [result EXCEPT !.projectDir = dir, !.pkgJsonPath = Some(dir)]
    ELSE result

\* Lines 89-109 without the pnpm-workspace.yaml check.
RecordManifestNoPnpm(result, dir, c) ==
    IF result.pkgJsonPath = Null
    THEN IF FileExists(c, "package.json")
         THEN [result EXCEPT !.projectDir = dir, !.pkgJsonPath = Some(dir)]
         ELSE result
    ELSE IF FileExists(c, "package.json") /\ c.workspaces # "none"
         THEN [result EXCEPT !.root = Some(dir)]
         ELSE result

\* Lines 89-109 with root set once only, by the first directory that sets it.
RecordManifestFirstRoot(result, dir, c) ==
    IF result.pkgJsonPath = Null
    THEN IF FileExists(c, "package.json")
         THEN [result EXCEPT !.projectDir = dir, !.pkgJsonPath = Some(dir)]
         ELSE result
    ELSE IF /\ result.root = Null
            /\ FileExists(c, "package.json")
            /\ c.workspaces # "none" \/ FileExists(c, "pnpm-workspace.yaml")
         THEN [result EXCEPT !.root = Some(dir)]
         ELSE result

\* Lines 89-109: the first package.json sets projectDir and pkgJsonPath; in
\* the directories above it a package.json with a workspaces array, or with
\* a pnpm-workspace.yaml beside it, sets root.  pkgJsonPath is the directory
\* of the package.json.
RecordManifest(result, dir, c) ==
    IF result.pkgJsonPath = Null
    THEN IF FileExists(c, "package.json")
         THEN [result EXCEPT !.projectDir = dir, !.pkgJsonPath = Some(dir)]
         ELSE result
    ELSE IF FileExists(c, "package.json")
         THEN IF c.workspaces # "none"
              THEN [result EXCEPT !.root = Some(dir)]
              ELSE IF FileExists(c, "pnpm-workspace.yaml")
                   THEN [result EXCEPT !.root = Some(dir)]
                   ELSE result
         ELSE result

\* Lines 111-140 with yarn.lock looked for before bun.lockb.
DetectLockfileYarnFirst(c) ==
    IF FileExists(c, "package-lock.json") THEN Some("npm")
    ELSE IF FileExists(c, "yarn.lock") THEN Some("yarn")
    ELSE IF FileExists(c, "bun.lockb") THEN Some("bun")
    ELSE IF FileExists(c, "pnpm-lock.yaml") THEN Some("pnpm")
    ELSE Null

\* Lines 111-140: the lockfile checks in the order of the code; Null when
\* the directory has none of the four.
DetectLockfile(c) ==
    IF FileExists(c, "package-lock.json") THEN Some("npm")
    ELSE IF FileExists(c, "bun.lockb") THEN Some("bun")
    ELSE IF FileExists(c, "yarn.lock") THEN Some("yarn")
    ELSE IF FileExists(c, "pnpm-lock.yaml") THEN Some("pnpm")
    ELSE Null

\* One call findProjectDir(cwd, dir, result) up to its return or its
\* recursive call, given the contents c of dir.
FindProjectDirCall(result, dir, c) ==
    LET r == RecordManifest(result, dir, c)
        lock == DetectLockfile(c)
    IN  IF lock # Null
        THEN [result |-> [r EXCEPT !.pkgManagerName = lock], returned |-> TRUE]
        ELSE IF Dirname(dir) = dir
        THEN [result |-> r, returned |-> TRUE]
        ELSE [result |-> r, returned |-> FALSE]

\* The place of dir in fs, and the number of directories visited so far.
FsIndex(dir) == fpCwd - dir + 1
Visited == IF fpPc = "returned" THEN FsIndex(fpDir) ELSE FsIndex(fpDir) - 1

\* findProjectDir(cwd) is called with dir = cwd and the default result.
\* The file system is either fixed beforehand, from FixedDirContents, or
\* left open, each directory then getting its contents when the walk reads
\* it (no directory is read twice).
FindStart ==
    /\ fpCwd \in 0..MaxDepth
    /\ fpDir = fpCwd
    /\ fpResult = [projectDir |-> fpCwd, pkgManagerName |-> Null,
                   pkgJsonPath |-> Null, root |-> Null]
    /\ fpPc = "call"
    /\ fs \in {<<>>} \cup SeqsOfLen(FixedDirContents, fpCwd + 1)

FindInit ==
    /\ CliIdle
    /\ PkgIdle
    /\ PmIdle
    /\ RcIdle
    /\ FindStart

\* One call of findProjectDir: the call for the start directory, or the
\* recursive call (line 148) for the next directory up.
FindProjectDir ==
    /\ fpPc = "call"
    /\ \E c \in (IF FsIndex(fpDir) <= Len(fs) THEN {fs[FsIndex(fpDir)]} ELSE DirContents) :
          LET s == FindProjectDirCall(fpResult, fpDir, c)
          IN  /\ fs' = IF FsIndex(fpDir) <= Len(fs) THEN fs ELSE Append(fs, c)
              /\ fpResult' = s.result
              /\ fpPc' = IF s.returned THEN "returned" ELSE "call"
              /\ fpDir' = IF s.returned THEN fpDir ELSE Dirname(fpDir)
    /\ UNCHANGED <<fpCwd, exceptFind>>

FindNext == FindProjectDir

SpecFind == FindInit /\ [][FindNext]_vars

-----------------------------------------------------------------------------
(* Claims about findProjectDir                                             *)

\* The directory read as the k-th, and the directories read so far that
\* hold a package.json.
DirAt(k) == fpCwd - k + 1
ManifestsVisited == { k \in 1..Visited : "package.json" \in fs[k].files }
\* fs[k] declares a workspace: a package.json with a workspaces array or
\* with a pnpm-workspace.yaml beside it
DeclaresWorkspace(c) ==
    /\ "package.json" \in c.files
    /\ c.workspaces # "none" \/ "pnpm-workspace.yaml" \in c.files
DetectedLockfiles(c) ==
    c.files \cap {"package-lock.json", "bun.lockb", "yarn.lock", "pnpm-lock.yaml"}

C4_RootIsParent ==
    ( /\ fpPc = "returned"
      /\ fpCwd >= 1
      /\ Len(fs) >= 2
      /\ "package.json" \in fs[1].files
      /\ "package.json" \in fs[2].files
      /\ fs[2].workspaces = "member" \/ "pnpm-workspace.yaml" \in fs[2].files )
    => fpResult.root = Some(fpCwd - 1)

\* C4 amended: ... and the child directory holds no lockfile, root is the
\* parent, unless the walk goes on above the parent and visits a higher
\* directory that declares a workspace as well.
C4_RootIsParentWhenReached ==
    ( /\ fpPc = "returned"
      /\ fpCwd >= 1
      /\ Len(fs) >= 2
      /\ "package.json" \in fs[1].files
      /\ DetectedLockfiles(fs[1]) = {}
      /\ "package.json" \in fs[2].files
      /\ fs[2].workspaces = "member" \/ "pnpm-workspace.yaml" \in fs[2].files
      /\ \A k \in 3..Visited : ~DeclaresWorkspace(fs[k]) )
    => fpResult.root = Some(fpCwd - 1)

\* C4 witness: the parent is a workspace root by pnpm-workspace.yaml alone
\* and the walk returned it as root.
C4_Witness ==
    /\ fpPc = "returned"
    /\ fpCwd >= 1
    /\ Visited >= 2
    /\ "package.json" \in fs[1].files
    /\ "package.json" \in fs[2].files
    /\ fs[2].workspaces = "none"
    /\ "pnpm-workspace.yaml" \in fs[2].files
    /\ fpResult.root = Some(fpCwd - 1)

\* C5: the directory whose lockfile ends the walk gives the package manager
\* by the order package-lock.json, bun.lockb, yarn.lock, pnpm-lock.yaml.
C5_LockfilePriority ==
    (fpPc = "returned" /\ DetectedLockfiles(fs[Visited]) # {}) =>
        LET f == fs[Visited].files
        IN  /\ "package-lock.json" \in f => fpResult.pkgManagerName = Some("npm")
            /\ ("bun.lockb" \in f /\ "package-lock.json" \notin f) =>
                   fpResult.pkgManagerName = Some("bun")
            /\ ("yarn.lock" \in f /\ f \cap {"package-lock.json", "bun.lockb"} = {}) =>
                   fpResult.pkgManagerName = Some("yarn")
            /\ ("pnpm-lock.yaml" \in f
                  /\ f \cap {"package-lock.json", "bun.lockb", "yarn.lock"} = {}) =>
                   fpResult.pkgManagerName = Some("pnpm")

\* C5 witness: a directory with both bun.lockb and yarn.lock gave bun.
C5_Witness ==
    /\ fpPc = "returned"
    /\ {"bun.lockb", "yarn.lock"} \subseteq fs[Visited].files
    /\ fpResult.pkgManagerName = Some("bun")

-----------------------------------------------------------------------------
(* getPkgManager (src/src/pkg_manager.ts)                                  *)

PkgManagerNames == {"npm", "yarn", "pnpm", "bun"}

\* value.startsWith("pnpm/") and so on, in the order of the code
GetPkgManagerFromEnv(value) ==
    IF StartsWith(value, <<"p","n","p","m","/">>) THEN Some("pnpm")
    ELSE IF StartsWith(value, <<"y","a","r","n","/">>) THEN Some("yarn")
    ELSE IF StartsWith(value, <<"n","p","m","/">>) THEN Some("npm")
    ELSE IF StartsWith(value, <<"b","u","n","/">>) THEN Some("bun")
    ELSE Null

\* a || b for values of type string | null: null and "" are falsy
Or(a, b) == IF a # Null /\ a[1] # "" THEN a ELSE b

\* The selection with the user agent put before the argument.
SelectResultEnvFirst(pkgManagerName, fromEnv, fromLockfile) ==
    Or(Or(Or(fromEnv, pkgManagerName), fromLockfile), Some("npm"))

\* pkgManagerName || fromEnv || fromLockfile || "npm"
SelectResult(pkgManagerName, fromEnv, fromLockfile) ==
    Or(Or(Or(pkgManagerName, fromEnv), fromLockfile), Some("npm"))

\* isYarnBerry: the captured output of `yarn --version`
IsYarnBerry(version) ==
    IF version = <<>> THEN FALSE
    ELSE IF StartsWith(version, <<"1",".">>) THEN FALSE
    ELSE TRUE

\* What `yarn --version` may print.
YarnVersionOutputs ==
    {<<>>, <<"1",".","2","2",".","1","9","\n">>, <<"3",".","6",".","0","\n">>,
     <<"1","0",".","0",".","0","\n">>}

\* Values of npm_config_user_agent, besides its being unset.
UserAgents ==
    {<<>>,
     <<"p","n","p","m","/","8",".","1"," ","n","p","m","/","?">>,
     <<"y","a","r","n","/","1",".","2","2">>,
     <<"n","p","m","/","1","0",".","2">>,
     <<"b","u","n","/","1",".","1">>,
     <<"d","e","n","o","/","2">>,
     <<"n","p","m">>}

\* The directories getPkgManager is run in: at most one lockfile each.
PmDirContents ==
    { c \in DirContents :
        /\ c.workspaces = "none"
        /\ c.files \in {{}, {"package.json"}, {"package-lock.json"}, {"bun.lockb"},
                        {"yarn.lock"}, {"pnpm-lock.yaml"}} }

PmInit ==
    /\ CliIdle
    /\ PkgIdle
    /\ RcIdle
    /\ pmFlag \in {Null} \cup {Some(n) : n \in PkgManagerNames}
    /\ pmEnv \in {Null} \cup {Some(ua) : ua \in UserAgents}
    /\ pmPc = "start"
    /\ pmFromEnv = Null
    /\ pmFromLockfile = Null
    /\ pmAdapter = Null
    /\ fpCwd \in 0..MaxDepth
    /\ fpDir = fpCwd
    /\ fpResult = [projectDir |-> fpCwd, pkgManagerName |-> Null,
                   pkgJsonPath |-> Null, root |-> Null]
    /\ fpPc = "idle"
    /\ fs \in SeqsOfLen(PmDirContents, fpCwd + 1)

\* getPkgManager up to `await findProjectDir(cwd)`: reads the user agent
\* (undefined is Null) and calls findProjectDir.
GetPkgManagerEnter ==
    /\ pmPc = "start"
    /\ pmFromEnv' = IF pmEnv # Null THEN GetPkgManagerFromEnv(pmEnv[1]) ELSE Null
    /\ pmPc' = "findProjectDir"
    /\ fpPc' = "call"
    /\ UNCHANGED <<pmFlag, pmEnv, pmFromLockfile, pmAdapter, fpCwd, fpDir, fpResult, fs,
                   exceptFindPm>>

\* getPkgManager from the return of findProjectDir: the selection, for yarn
\* the version probe (which may exit non-zero, and getPkgManager then
\* rejects), and the adapter bound to projectDir.
GetPkgManagerSelect ==
    /\ pmPc = "findProjectDir"
    /\ fpPc = "returned"
    /\ pmFromLockfile' = fpResult.pkgManagerName
    /\ LET result == SelectResult(pmFlag, pmFromEnv, fpResult.pkgManagerName)[1]
           mk(class) == Some([class |-> class, cwd |-> fpResult.projectDir])
       IN  IF result = "yarn"
           THEN \E probe \in {[ok |-> FALSE, out |-> <<>>]}
                               \cup {[ok |-> TRUE, out |-> v] : v \in YarnVersionOutputs} :
                    IF probe.ok
                    THEN /\ pmAdapter' = mk(IF IsYarnBerry(probe.out) THEN "YarnBerry" ELSE "Yarn")
                         /\ pmPc' = "returned"
                    ELSE /\ pmAdapter' = Null
                         /\ pmPc' = "threw"
           ELSE /\ pmAdapter' = mk(IF result = "pnpm" THEN "Pnpm"
                                   ELSE IF result = "bun" THEN "Bun" ELSE "Npm")
                /\ pmPc' = "returned"
    /\ UNCHANGED <<pmFlag, pmEnv, pmFromEnv, findVars, exceptFindPm>>

PmNext == GetPkgManagerEnter \/ FindProjectDir \/ GetPkgManagerSelect

SpecPm == PmInit /\ [][PmNext]_vars

-----------------------------------------------------------------------------
(* Claims about getPkgManager                                              *)

\* The package manager an adapter class drives.
ManagerOfClass(class) ==
    CASE class = "Npm" -> "npm"
      [] class \in {"Yarn", "YarnBerry"} -> "yarn"
      [] class = "Pnpm" -> "pnpm"
      [] class = "Bun" -> "bun"

\* The manager a user agent names: what stands before its first "/", if
\* that is one of the four names.
NamedByUserAgent(ua) ==
    LET slashes == { i \in 1..Len(ua) : ua[i] = "/" }
    IN  IF slashes = {} THEN Null
        ELSE LET i == CHOOSE m \in slashes : \A o \in slashes : m <= o
                 prefix == SubSeq(ua, 1, i - 1)
             IN  IF prefix = <<"n","p","m">> THEN Some("npm")
                 ELSE IF prefix = <<"y","a","r","n">> THEN Some("yarn")
                 ELSE IF prefix = <<"p","n","p","m">> THEN Some("pnpm")
                 ELSE IF prefix = <<"b","u","n">> THEN Some("bun")
                 ELSE Null

\* The first lockfile on the way up from cwd, by its name.
LockfileOnPath ==
    LET hits == { k \in 1..Len(fs) :
                    fs[k].files \cap {"package-lock.json", "bun.lockb", "yarn.lock",
                                      "pnpm-lock.yaml"} # {} }
    IN  IF hits = {} THEN Null
        ELSE LET k == CHOOSE m \in hits : \A o \in hits : m <= o
             IN  IF "package-lock.json" \in fs[k].files THEN Some("npm")
                 ELSE IF "bun.lockb" \in fs[k].files THEN Some("bun")
                 ELSE IF "yarn.lock" \in fs[k].files THEN Some("yarn")
                 ELSE Some("pnpm")

\* C10: the adapter getPkgManager returns is that of the explicit flag if
\* one is given, else of the manager the user agent names, else of the
\* manager of the lockfile found, else npm.
C10_Precedence ==
    pmPc = "returned" =>
        LET m == ManagerOfClass(pmAdapter[1].class)
            agent == IF pmEnv = Null THEN Null ELSE NamedByUserAgent(pmEnv[1])
        IN  /\ pmFlag # Null => m = pmFlag[1]
            /\ (pmFlag = Null /\ agent # Null) => m = agent[1]
            /\ (pmFlag = Null /\ agent = Null /\ LockfileOnPath # Null) => m = LockfileOnPath[1]
            /\ (pmFlag = Null /\ agent = Null /\ LockfileOnPath = Null) => m = "npm"

\* C10 witness: --npm with a pnpm user agent in a directory with a
\* yarn.lock selected npm.
C10_Witness ==
    /\ pmPc = "returned"
    /\ pmFlag = Some("npm")
    /\ pmEnv # Null
    /\ NamedByUserAgent(pmEnv[1]) = Some("pnpm")
    /\ LockfileOnPath = Some("yarn")
    /\ pmAdapter[1].class = "Npm"

-----------------------------------------------------------------------------
(* setupNpmRc and setupBunfigToml (src/src/commands.ts)                    *)

MaxFrags == 3
MaxCalls == 2

\* "@jsr:registry=", the substring setupNpmRc looks for
JSR_REGISTRY_KEY == <<"@","j","s","r",":","r","e","g","i","s","t","r","y","=">>
JSR_NPM_REGISTRY_URL ==
    <<"h","t","t","p","s",":","/","/","n","p","m",".","j","s","r",".","i","o">>
\* `@jsr:registry=${JSR_NPM_REGISTRY_URL}\n`
JSR_NPMRC == JSR_REGISTRY_KEY \o JSR_NPM_REGISTRY_URL \o <<"\n">>
\* `[install.scopes]\n"@jsr" = "${JSR_NPM_REGISTRY_URL}"\n`
JSR_BUNFIG ==
    <<"[","i","n","s","t","a","l","l",".","s","c","o","p","e","s","]","\n",
      "\"","@","j","s","r","\""," ","="," ","\"">> \o JSR_NPM_REGISTRY_URL \o <<"\"","\n">>

\* source.indexOf(c): the 0-based index of the first c, or -1
IndexOf(source, c) ==
    LET hits == { i \in 1..Len(source) : source[i] = c }
    IN  IF hits = {} THEN -1
        ELSE (CHOOSE i \in hits : \A o \in hits : i <= o) - 1

\* source[k] with k 0-based: undefined (here Null) outside the string
CharAt(source, k) == IF k >= 0 /\ k < Len(source) THEN Some(source[k + 1]) ELSE Null

\* getNewLineChars (src/src/utils.ts)
GetNewLineChars(source) ==
    LET temp == IndexOf(source, "\n")
    IN  IF CharAt(source, temp - 1) = Some("\r") THEN <<"\r","\n">> ELSE <<"\n">>

\* The mapping looked for as the whole line setupNpmRc writes.
HasJsrRegistryExactLine(content) == Includes(content, JSR_NPMRC)

\* content.includes("@jsr:registry=")
HasJsrRegistry(content) == Includes(content, JSR_REGISTRY_KEY)

\* No separator at all.
SpacerNever(content) == <<>>

\* const nl = getNewLineChars(content);
\* const spacer = (!content.endsWith(nl)) ? nl : "";
Spacer(content) ==
    LET nl == GetNewLineChars(content)
    IN  IF ~EndsWith(content, nl) THEN nl ELSE <<>>

\* The pattern without the m flag: ^ is the start of the content only.
BunfigRegexTestNoMultiline(content) ==
    \E j \in 1..Len(content) :
        /\ StartsWith(content, <<"\"","@","j","s","r","\"">>)
        /\ j >= 8
        /\ AllIn(content, 7, j - 1, WhiteSpace)
        /\ content[j] = "="

\* /^"@jsr"\s+=/gm.test(content): at the start of some line, "@jsr", one or
\* more white space characters and =
BunfigRegexTest(content) ==
    \E i \in 1..Len(content) : \E j \in i..Len(content) :
        /\ i = 1 \/ content[i - 1] \in LineTerminators
        /\ StartsWithAt(content, i, <<"\"","@","j","s","r","\"">>)
        /\ j >= i + 7
        /\ AllIn(content, i + 6, j - 1, WhiteSpace)
        /\ content[j] = "="

\* fs.promises.writeFile(path, content) on a file that is absent or
\* writable; on another it fails with EACCES.
CanWrite(file) == file.st \in {"absent", "file"}

\* A call of one of the two functions: the file it found, the file it
\* left, whether it returned or threw, and whether it wrote the file.
CallRecord(fn, before, after, outcome, wrote) ==
    [fn |-> fn, before |-> before, after |-> after, outcome |-> outcome, wrote |-> wrote]

\* setupNpmRc(dir), given dir/.npmrc
SetupNpmRcCall(file) ==
    IF file.st \in {"file", "readonly"}
    THEN IF ~HasJsrRegistry(file.content)
         THEN LET content == file.content \o Spacer(file.content) \o JSR_NPMRC
              IN  IF CanWrite(file)
                  THEN CallRecord("setupNpmRc", file, [st |-> "file", content |-> content],
                                  "ok", TRUE)
                  ELSE CallRecord("setupNpmRc", file, file, "threw", FALSE)
         ELSE CallRecord("setupNpmRc", file, file, "ok", FALSE)
    ELSE IF file.st = "absent"
    THEN CallRecord("setupNpmRc", file, [st |-> "file", content |-> JSR_NPMRC], "ok", TRUE)
    ELSE CallRecord("setupNpmRc", file, file, "threw", FALSE)

\* setupBunfigToml(dir), given dir/bunfig.toml
SetupBunfigTomlCall(file) ==
    IF file.st \in {"file", "readonly"}
    THEN IF ~BunfigRegexTest(file.content)
         THEN LET content == file.content \o JSR_BUNFIG
              IN  IF CanWrite(file)
                  THEN CallRecord("setupBunfigToml", file, [st |-> "file", content |-> content],
                                  "ok", TRUE)
                  ELSE CallRecord("setupBunfigToml", file, file, "threw", FALSE)
         ELSE CallRecord("setupBunfigToml", file, file, "ok", FALSE)
    ELSE IF file.st = "absent"
    THEN CallRecord("setupBunfigToml", file, [st |-> "file", content |-> JSR_BUNFIG],
                    "ok", TRUE)
    ELSE CallRecord("setupBunfigToml", file, file, "threw", FALSE)

\* The contents of the files the functions find: up to MaxFrags pieces put
\* together, so a mapping may be present, half present, at the start of a
\* line or not, and line breaks may be LF, CRLF, mixed or missing.
NpmrcFrags ==
    {JSR_REGISTRY_KEY, <<"@","j","s","r",":","r","e","g","i","s","t","r","y">>,
     <<"x","=","1">>, <<"\n">>, <<"\r","\n">>, <<"\r">>}
BunfigFrags ==
    {<<"\"","@","j","s","r","\"">>, <<" ">>, <<"=">>, <<"\n">>, <<"x">>,
     <<"\"","@","j","s","r","\""," ","="," ","\"","u","\"">>}

RECURSIVE Concat(_)
Concat(pieces) == IF pieces = <<>> THEN <<>> ELSE Head(pieces) \o Concat(Tail(pieces))

Contents(Frags) == UNION { { Concat(q) : q \in [1..n -> Frags] } : n \in 0..MaxFrags }

Files(Frags) ==
    {AbsentFile, [st |-> "denied", content |-> <<>>]}
        \cup { [st |-> s, content |-> c] : s \in {"file", "readonly"}, c \in Contents(Frags) }

RcInit ==
    /\ CliIdle
    /\ PkgIdle
    /\ FindIdle
    /\ PmIdle
    /\ RaceIdle
    /\ rcLog = <<>>
    /\ \/ npmrc \in Files(NpmrcFrags) /\ bunfig = AbsentFile
       \/ npmrc = AbsentFile /\ bunfig \in Files(BunfigFrags)

\* await setupNpmRc(dir)
SetupNpmRc ==
    /\ Len(rcLog) < MaxCalls
    /\ LET call == SetupNpmRcCall(npmrc)
       IN  /\ npmrc' = call.after
           /\ rcLog' = Append(rcLog, call)
    /\ UNCHANGED <<bunfig, raceVars, exceptRc>>

\* await setupBunfigToml(dir)
SetupBunfigToml ==
    /\ Len(rcLog) < MaxCalls
    /\ LET call == SetupBunfigTomlCall(bunfig)
       IN  /\ bunfig' = call.after
           /\ rcLog' = Append(rcLog, call)
    /\ UNCHANGED <<npmrc, raceVars, exceptRc>>

RcNext == SetupNpmRc \/ SetupBunfigToml

SpecRc == RcInit /\ [][RcNext]_vars

-----------------------------------------------------------------------------
(* Two invocations of setupNpmRc on one directory (src/src/commands.ts)    *)
(*                                                                         *)
(* Each invocation is two steps on the file, readFile and writeFile, each  *)
(* of them atomic; between the two the other invocation may take any of    *)
(* its steps.                                                              *)

Invocations == {1, 2}

\* Both invocations are about to read .npmrc, which is absent or a file
\* that can be read and written.
RaceInit ==
    /\ CliIdle
    /\ PkgIdle
    /\ FindIdle
    /\ PmIdle
    /\ bunfig = AbsentFile
    /\ rcLog = <<>>
    /\ npmrc \in {AbsentFile} \cup { [st |-> "file", content |-> c] : c \in Contents(NpmrcFrags) }
    /\ raceStart = npmrc
    /\ racePc = [p \in Invocations |-> "read"]
    /\ raceContent = [p \in Invocations |-> AbsentFile]

\* writeFile adding to the file as it is now instead of replacing it.
SetupNpmRcWriteAppending(p) ==
    /\ racePc[p] = "write"
    /\ npmrc' = [st |-> "file",
                 content |-> npmrc.content
                                \o SubSeq(SetupNpmRcCall(raceContent[p]).after.content,
                                          Len(raceContent[p].content) + 1,
                                          Len(SetupNpmRcCall(raceContent[p]).after.content))]
    /\ racePc' = [racePc EXCEPT ![p] = "done"]
    /\ UNCHANGED <<raceStart, raceContent, bunfig, rcLog, exceptRc>>

\* let content = await fs.promises.readFile(npmRcPath, "utf-8"): the content
\* or ENOENT; with the mapping in the content the invocation is over.
SetupNpmRcRead(p) ==
    /\ racePc[p] = "read"
    /\ raceContent' = [raceContent EXCEPT ![p] = npmrc]
    /\ racePc' = [racePc EXCEPT ![p] = IF SetupNpmRcCall(npmrc).wrote THEN "write" ELSE "done"]
    /\ UNCHANGED <<raceStart, npmrc, bunfig, rcLog, exceptRc>>

\* await fs.promises.writeFile(npmRcPath, content): the content made from
\* what this invocation read replaces the file.
SetupNpmRcWrite(p) ==
    /\ racePc[p] = "write"
    /\ npmrc' = SetupNpmRcCall(raceContent[p]).after
    /\ racePc' = [racePc EXCEPT ![p] = "done"]
    /\ UNCHANGED <<raceStart, raceContent, bunfig, rcLog, exceptRc>>

RaceNext == \E p \in Invocations : SetupNpmRcRead(p) \/ SetupNpmRcWrite(p)

SpecRace == RaceInit /\ [][RaceNext]_vars

-----------------------------------------------------------------------------
(* Claims about setupNpmRc and setupBunfigToml                             *)

NpmRcCalls == { k \in 1..Len(rcLog) : rcLog[k].fn = "setupNpmRc" }
Readable(file) == file.st \in {"file", "readonly"}
\* s occurs in content / s is the start of content
Occurs(s, content) ==
    \E i \in 1..(Len(content) - Len(s) + 1) : SubSeq(content, i, i + Len(s) - 1) = s
IsPrefix(s, content) == Len(s) <= Len(content) /\ SubSeq(content, 1, Len(s)) = s
\* content has the line `line`: from a line start to a line end
HasLine(line, content) ==
    \E i \in 1..Len(content) :
        /\ i = 1 \/ content[i - 1] = "\n"
        /\ i + Len(line) - 1 <= Len(content)
        /\ SubSeq(content, i, i + Len(line) - 1) = line
        /\ i + Len(line) > Len(content) \/ content[i + Len(line)] \in {"\n", "\r"}
MappingLine ==
    <<"@","j","s","r",":","r","e","g","i","s","t","r","y","=",
      "h","t","t","p","s",":","/","/","n","p","m",".","j","s","r",".","i","o">>

\* C6: a call of setupNpmRc that finds `@jsr:registry=` anywhere in .npmrc
\* returns without writing and leaves the file as it was.
C6_NoOpWhenMappingPresent ==
    \A k \in NpmRcCalls :
        (Readable(rcLog[k].before)
            /\ Occurs(<<"@","j","s","r",":","r","e","g","i","s","t","r","y","=">>,
                      rcLog[k].before.content))
        => /\ rcLog[k].after = rcLog[k].before
           /\ ~rcLog[k].wrote
           /\ rcLog[k].outcome = "ok"

\* C6 witness: setupNpmRc ran on an .npmrc that maps @jsr to something
\* other than npm.jsr.io and left it alone.
C6_Witness ==
    /\ Len(rcLog) >= 1
    /\ rcLog[1].fn = "setupNpmRc"
    /\ rcLog[1].before =
          [st |-> "file",
           content |-> <<"@","j","s","r",":","r","e","g","i","s","t","r","y","=",
                         "x","=","1","\n">>]
    /\ npmrc = rcLog[1].before

\* C7: the second of two calls in succession of setupNpmRc, and of
\* setupBunfigToml, finds the file the first left and leaves it the same.
C7_SecondCallChangesNothing ==
    \A k \in 2..Len(rcLog) :
        rcLog[k].fn = rcLog[k - 1].fn =>
            /\ rcLog[k].before = rcLog[k - 1].after
            /\ rcLog[k].after = rcLog[k].before
            /\ ~rcLog[k].wrote

\* C7 witness: setupBunfigToml ran twice on a bunfig.toml with other
\* content that does not end with a line break; the first call appended.
C7_Witness ==
    /\ Len(rcLog) = 2
    /\ rcLog[1].fn = "setupBunfigToml"
    /\ rcLog[2].fn = "setupBunfigToml"
    /\ rcLog[1].before = [st |-> "file", content |-> <<"x","=","x">>]
    /\ rcLog[1].wrote

\* C8: a call of setupNpmRc that appends keeps the content it found as the
\* start of the new content, and puts between it and the mapping line a
\* line break if and only if the content found does not end with one.
C8_OneLineBreakBetween ==
    \A k \in NpmRcCalls :
        (rcLog[k].wrote /\ rcLog[k].before.st = "file") =>
            LET old == rcLog[k].before.content
                new == rcLog[k].after.content
                endsWithBreak == Len(old) >= 1 /\ old[Len(old)] = "\n"
                line == MappingLine \o <<"\n">>
            IN  /\ IsPrefix(old, new)
                /\ IF endsWithBreak
                   THEN new = old \o line
                   ELSE new \in {old \o <<"\n">> \o line, old \o <<"\r","\n">> \o line}

\* C8 failing case: setupNpmRc ran on an .npmrc whose first line ends with
\* CRLF and whose last ends with LF, and put a CRLF after that LF.
C8_Witness ==
    /\ Len(rcLog) >= 1
    /\ rcLog[1].fn = "setupNpmRc"
    /\ rcLog[1].before = [st |-> "file", content |-> <<"x","=","1","\r","\n","\n">>]
    /\ rcLog[1].after.content =
          <<"x","=","1","\r","\n","\n","\r","\n">> \o MappingLine \o <<"\n">>

\* C9: after a call of setupNpmRc that returned, .npmrc exists and has the
\* line @jsr:registry=https://npm.jsr.io unless the file it found had
\* `@jsr:registry=` in it; a file that did not exist holds the mapping line
\* and nothing else.
C9_MappingPresentAfter ==
    \A k \in NpmRcCalls :
        rcLog[k].outcome = "ok" =>
            /\ Readable(rcLog[k].after)
            /\ \/ HasLine(MappingLine, rcLog[k].after.content)
               \/ /\ Readable(rcLog[k].before)
                  /\ Occurs(<<"@","j","s","r",":","r","e","g","i","s","t","r","y","=">>,
                            rcLog[k].before.content)
            /\ rcLog[k].before.st = "absent" =>
                  rcLog[k].after = [st |-> "file", content |-> MappingLine \o <<"\n">>]

\* C9 witness: setupNpmRc ran where no .npmrc was and created it.
C9_Witness ==
    /\ Len(rcLog) >= 1
    /\ rcLog[1].fn = "setupNpmRc"
    /\ rcLog[1].before.st = "absent"
    /\ rcLog[1].outcome = "ok"
    /\ npmrc.st = "file"

-----------------------------------------------------------------------------
(* The command line (bin.ts, src/unnamed/part_005), exec (src/src/utils.ts) *)
(* and the commands (src/src/commands.ts)                                  *)
(*                                                                         *)
(* An argument is a string.  A subprocess is recorded with the command,    *)
(* the argument strings and the directory given to exec; exec hands each   *)
(* argument to the shell in quotes.                                        *)

\* args.some((arg) => arg === a || arg === b)
HasArg(args, names) == \E k \in 1..Len(args) : args[k] \in names

\* The boolean options of the parseArgs configuration.
BooleanOptions ==
    {<<"-","-","s","a","v","e","-","p","r","o","d">>, <<"-","P">>,
     <<"-","-","s","a","v","e","-","d","e","v">>, <<"-","D">>,
     <<"-","-","s","a","v","e","-","o","p","t","i","o","n","a","l">>,
     <<"-","O">>, <<"-","-","d","r","y","-","r","u","n">>,
     <<"-","-","a","l","l","o","w","-","s","l","o","w","-","t","y","p","e","s">>,
     <<"-","-","n","o","-","c","o","n","f","i","g">>,
     <<"-","-","q","u","i","e","t">>, <<"-","q">>, <<"-","-","n","p","m">>,
     <<"-","-","y","a","r","n">>, <<"-","-","p","n","p","m">>,
     <<"-","-","b","u","n">>, <<"-","-","d","e","b","u","g">>,
     <<"-","-","c","a","n","a","r","y">>, <<"-","-","h","e","l","p">>,
     <<"-","h">>, <<"-","-","v","e","r","s","i","o","n">>, <<"-","v">>}

\* parseArgs takes an argument that starts with - as an option.  (The
\* options that take a value, --token, --config, --check and --no-check,
\* are not among the arguments modelled.)
IsOptionToken(arg) == Len(arg) >= 2 /\ arg[1] = "-"

\* parseArgs is strict: an option that is not in its configuration makes it
\* throw.
ParseArgsThrows(args) ==
    \E k \in 1..Len(args) : IsOptionToken(args[k]) /\ args[k] \notin BooleanOptions

\* options.positionals
RECURSIVE Positionals(_)
Positionals(args) ==
    IF args = <<>> THEN <<>>
    ELSE IF IsOptionToken(Head(args)) THEN Positionals(Tail(args))
    ELSE <<Head(args)>> \o Positionals(Tail(args))

\* array.slice(1)
Slice1(array) == IF array = <<>> THEN <<>> ELSE Tail(array)

\* options.values.pnpm ? "pnpm" : options.values.yarn ? "yarn" : ...
PkgManagerNameOption(args) ==
    IF HasArg(args, {<<"-","-","p","n","p","m">>}) THEN Some("pnpm")
    ELSE IF HasArg(args, {<<"-","-","y","a","r","n">>}) THEN Some("yarn")
    ELSE IF HasArg(args, {<<"-","-","b","u","n">>}) THEN Some("bun")
    ELSE IF HasArg(args, {<<"-","-","n","p","m">>}) THEN Some("npm")
    ELSE Null

\* options.values["save-dev"] ? "dev" : options.values["save-optional"] ? ...
ModeOption(args) ==
    IF HasArg(args, {<<"-","-","s","a","v","e","-","d","e","v">>, <<"-","D">>}) THEN "dev"
    ELSE IF HasArg(args, {<<"-","-","s","a","v","e","-","o","p","t","i","o","n","a","l">>, <<"-","O">>}) THEN "optional"
    ELSE "prod"

\* The properties every object has from Object.prototype, among them the
\* ones a command may be named after.
ObjectPrototypeNames ==
    {<<"c","o","n","s","t","r","u","c","t","o","r">>,
     <<"t","o","S","t","r","i","n","g">>, <<"v","a","l","u","e","O","f">>,
     <<"h","a","s","O","w","n","P","r","o","p","e","r","t","y">>,
     <<"_","_","p","r","o","t","o","_","_">>}

\* packageJson.scripts && packageJson.scripts[cmd]: scripts is undefined
\* (Null) or an object with the given own properties, each a command line.
ScriptsLookup(scripts, cmd) ==
    scripts # Null /\ (cmd \in scripts[1] \/ cmd \in ObjectPrototypeNames)

\* What the top level of bin.ts comes to: process.exit(code), an exception
\* nothing catches, or a call of run(fn).
MainExit(code) == [pc |-> "exited", exit |-> Some(code), ctx |-> NoCtx, pkgManagerName |-> Null]
MainThrow == [pc |-> "uncaught", exit |-> Some(1), ctx |-> NoCtx, pkgManagerName |-> Null]
MainRun(pc, fn, mode, script, pkgManagerName) ==
    [pc |-> pc, exit |-> Null,
     ctx |-> [NoCtx EXCEPT !.fn = fn, !.mode = mode, !.script = script],
     pkgManagerName |-> pkgManagerName]

\* The last else of bin.ts: cmd is none of the verbs.
BareScript(args, cmd, hasPackageJson, scripts) ==
    IF hasPackageJson
    THEN IF ScriptsLookup(scripts, cmd)
         THEN MainRun("getPkgManager", "runScript", "prod", cmd, PkgManagerNameOption(args))
         ELSE MainExit(1)
    ELSE MainExit(1)

\* bin.ts from `if (args.length === 0)` on
BinMain(args, hasPackageJson, scripts) ==
    IF Len(args) = 0 THEN MainExit(0)
    ELSE IF HasArg(args, {<<"-","h">>, <<"-","-","h","e","l","p">>}) THEN MainExit(0)
    ELSE IF HasArg(args, {<<"-","v">>, <<"-","-","v","e","r","s","i","o","n">>}) THEN MainExit(0)
    ELSE LET cmd == args[1]
             positionals == Positionals(args)
         IN  IF cmd = <<"p","u","b","l","i","s","h">>
             THEN MainRun("publish", "publish", "prod", <<>>, Null)
             ELSE IF cmd \in {<<"v","i","e","w">>, <<"s","h","o","w">>, <<"i","n","f","o">>}
             THEN IF Len(args) < 2 THEN MainExit(1)
                  ELSE MainRun("show", "show", "prod", <<>>, Null)
             ELSE IF ParseArgsThrows(args) THEN MainThrow
             ELSE IF Len(positionals) = 0 THEN MainExit(0)
             ELSE IF cmd \in {<<"i">>, <<"i","n","s","t","a","l","l">>, <<"a","d","d">>}
             THEN MainRun("getPackages", "install", ModeOption(args), <<>>,
                          PkgManagerNameOption(args))
             ELSE IF cmd \in {<<"r">>, <<"u","n","i","n","s","t","a","l","l">>, <<"r","e","m","o","v","e">>}
             THEN MainRun("getPackages", "remove", "prod", <<>>, PkgManagerNameOption(args))
             ELSE IF cmd = <<"r","u","n">>
             THEN IF Len(positionals) < 2 \/ positionals[2] = <<>> THEN MainExit(1)
                  ELSE MainRun("getPkgManager", "runScript", "prod", positionals[2],
                               PkgManagerNameOption(args))
             ELSE BareScript(args, cmd, hasPackageJson, scripts)

\* The exit code of a subprocess: a number, or null when a signal ended it.
ExitCodes == {Null, Some(0), Some(1), Some(3)}

\* new ExecError(code ?? 1)
ExecErrorCode(code) == IF code = Null THEN 1 ELSE code[1]

\* The errors a command throws.
JsrPackageNameError == [type |-> "JsrPackageNameError", code |-> 0]
ExecError(code) == [type |-> "ExecError", code |-> code]
OtherError == [type |-> "Error", code |-> 0]

\* What happens to the process at the end of run(fn): fn returned
\* ("completed", the process then ends with code 0), process.exit(code) in
\* the catch block, or the error thrown again, which nothing catches (node
\* then ends with code 1).
Completed == [pc |-> "completed", exit |-> Some(0)]

\* The catch block without the ExecError branch.
RunCatchNameErrorOnly(err) ==
    IF err.type = "JsrPackageNameError" THEN [pc |-> "exited", exit |-> Some(1)]
    ELSE [pc |-> "uncaught", exit |-> Some(1)]

\* The catch block of run
RunCatch(err) ==
    IF err.type = "JsrPackageNameError" THEN [pc |-> "exited", exit |-> Some(1)]
    ELSE IF err.type = "ExecError" THEN [pc |-> "exited", exit |-> Some(err.code)]
    ELSE [pc |-> "uncaught", exit |-> Some(1)]

\* A subprocess as exec spawns it.
Subprocess(cmd, args, cwd, env, captureOutput) ==
    [cmd |-> cmd, args |-> args, cwd |-> cwd, env |-> env, captureOutput |-> captureOutput]

\* findProjectDir(cwd) to its return, over the directories fs from cwd up.
RECURSIVE FindProjectDirWalk(_, _)
FindProjectDirWalk(dir, result) ==
    LET s == FindProjectDirCall(result, dir, fs[FsIndex(dir)])
    IN  IF s.returned THEN s.result ELSE FindProjectDirWalk(Dirname(dir), s.result)

ProjectInfo ==
    FindProjectDirWalk(fpCwd, [projectDir |-> fpCwd, pkgManagerName |-> Null,
                               pkgJsonPath |-> Null, root |-> Null])

\* The directory getPkgManager returns as root: the workspace root if
\* findProjectDir found one, else the project directory.
GetPkgManagerRoot(info) == IF info.root # Null THEN info.root[1] ELSE info.projectDir

\* modeToFlag
ModeToFlag(mode) ==
    IF mode = "dev" THEN <<"-","-","s","a","v","e","-","d","e","v">>
    ELSE IF mode = "optional" THEN <<"-","-","s","a","v","e","-","o","p","t","i","o","n","a","l">>
    ELSE <<>>

\* modeToFlagYarn
ModeToFlagYarn(mode) ==
    IF mode = "dev" THEN <<"-","-","d","e","v">>
    ELSE IF mode = "optional" THEN <<"-","-","o","p","t","i","o","n","a","l">>
    ELSE <<>>

\* pkgs.map(f)
RECURSIVE Map(_, _)
Map(f(_), pkgs) == IF pkgs = <<>> THEN <<>> ELSE <<f(Head(pkgs))>> \o Map(f, Tail(pkgs))

\* The argument with the version on the left side too.
PackageArgKeepsVersion(pkg) == ToString(pkg) \o <<"@","n","p","m",":">> \o ToNpmPackage(pkg)

\* `@${pkg.scope}/${pkg.name}@npm:${pkg.toNpmPackage()}`
PackageArg(pkg) ==
    <<"@">> \o pkg.scope \o <<"/">> \o pkg.name \o <<"@","n","p","m",":">> \o ToNpmPackage(pkg)

\* toPackageArgs
ToPackageArgs(pkgs) == Map(PackageArg, pkgs)

\* pkg.version ??= `^${latest}`
BackfillVersion(pkg, latest) ==
    IF pkg.version = Null THEN [pkg EXCEPT !.version = Some(<<"^">> \o latest)] ELSE pkg

\* The mode flag put after the packages.
InstallArgsFlagLast(verb, flag, packages) ==
    <<verb>> \o ToPackageArgs(packages) \o (IF flag # <<>> THEN <<flag>> ELSE <<>>)

\* const args = [verb]; if (mode !== "") args.push(mode);
\* args.push(...toPackageArgs(packages))
InstallArgs(verb, flag, packages) ==
    <<verb>> \o (IF flag # <<>> THEN <<flag>> ELSE <<>>) \o ToPackageArgs(packages)

\* The executable and the arguments of each adapter's install.
AdapterInstall(class, packages, mode) ==
    IF class = "Npm" THEN [cmd |-> "npm", args |-> InstallArgs(<<"i","n","s","t","a","l","l">>, ModeToFlag(mode), packages)]
    ELSE IF class \in {"Yarn", "YarnBerry"}
    THEN [cmd |-> "yarn", args |-> InstallArgs(<<"a","d","d">>, ModeToFlagYarn(mode), packages)]
    ELSE IF class = "Pnpm"
    THEN [cmd |-> "pnpm", args |-> InstallArgs(<<"a","d","d">>, ModeToFlag(mode), packages)]
    ELSE [cmd |-> "bun", args |-> InstallArgs(<<"a","d","d">>, ModeToFlagYarn(mode), packages)]

\* The executable and the arguments of each adapter's remove.
AdapterRemove(class, packages) ==
    [cmd |-> IF class = "Npm" THEN "npm"
             ELSE IF class \in {"Yarn", "YarnBerry"} THEN "yarn"
             ELSE IF class = "Pnpm" THEN "yarn"
             ELSE "bun",
     args |-> <<<<"r","e","m","o","v","e">>>> \o Map(ToString, packages)]

\* The executable and the arguments of each adapter's runScript.
AdapterRunScript(class, script) ==
    IF class = "Npm" THEN [cmd |-> "npm", args |-> <<<<"r","u","n">>, script>>]
    ELSE IF class \in {"Yarn", "YarnBerry"} THEN [cmd |-> "yarn", args |-> <<script>>]
    ELSE IF class = "Pnpm" THEN [cmd |-> "pnpm", args |-> <<script>>]
    ELSE [cmd |-> "bun", args |-> <<<<"r","u","n">>, script>>]

-----------------------------------------------------------------------------
(* One run of the jsr process                                              *)

MaxArgs == 2
MaxPkgs == 2

\* All sequences over S of length at most n.
SeqsUpTo(S, n) == UNION { SeqsOfLen(S, k) : k \in 0..n }

\* Package arguments: canonical, with a version, in the proxy form, and one
\* that is no package name.
PkgArgs ==
    {<<"@","s","t","d","/","f","s">>,
     <<"@","s","t","d","/","f","s","@","1",".","0",".","0">>,
     <<"@","j","s","r","/","s","t","d","_","_","l","o","g">>,
     <<"@","S","t","d","/","f","s">>}

\* The words and options of the command lines whose dispatch is followed.
ArgTokens ==
    {<<"i","n","s","t","a","l","l">>, <<"i">>, <<"a","d","d">>,
     <<"r","e","m","o","v","e">>, <<"r">>,
     <<"u","n","i","n","s","t","a","l","l">>, <<"r","u","n">>,
     <<"p","u","b","l","i","s","h">>, <<"v","i","e","w">>, <<"s","h","o","w">>,
     <<"i","n","f","o">>, <<"b","u","i","l","d">>,
     <<"c","o","n","s","t","r","u","c","t","o","r">>, <<"a","s","d","f">>,
     <<"-","D">>, <<"-","-","y","a","r","n">>, <<"-","h">>,
     <<"-","-","v","e","r","s","i","o","n">>,
     <<"-","-","v","e","r","b","o","s","e">>}
        \cup PkgArgs

\* The scripts of the package.json of the current directory: no `scripts`
\* (Null), an empty object, or one script.
ScriptsOf(c) ==
    IF FileExists(c, "package.json") THEN {Null, Some({}), Some({<<"b","u","i","l","d">>})} ELSE {Null}

\* Directories of a project: empty, with a package.json, with a lockfile, a
\* workspace root of either kind.
CliDirContents ==
    { c \in DirContents :
        \/ c.files = {} /\ c.workspaces = "none"
        \/ c.files = {"package.json"} /\ c.workspaces \in {"none", "member"}
        \/ c.files = {"package.json", "pnpm-workspace.yaml"} /\ c.workspaces = "none"
        \/ c.files = {"pnpm-workspace.yaml"} /\ c.workspaces = "none"
        \/ c.files = {"package.json", "package-lock.json"} /\ c.workspaces = "none"
        \/ c.files = {"package.json", "yarn.lock"} /\ c.workspaces = "member" }

PlainProject == [files |-> {"package.json"}, workspaces |-> "none"]

\* The process starts at the top of bin.ts with nothing spawned.
CliStart ==
    /\ PkgIdle
    /\ fpDir = fpCwd
    /\ fpResult = [projectDir |-> fpCwd, pkgManagerName |-> Null,
                   pkgJsonPath |-> Null, root |-> Null]
    /\ fpPc = "idle"
    /\ pmFlag = Null
    /\ pmPc = "idle"
    /\ pmFromEnv = Null
    /\ pmFromLockfile = Null
    /\ pmAdapter = Null
    /\ bunfig = AbsentFile
    /\ rcLog = <<>>
    /\ RaceIdle
    /\ cliPc = "main"
    /\ cliExit = Null
    /\ cliSpawned = <<>>
    /\ cliCtx = NoCtx

\* Any short command line, in a directory with or without a package.json.
CliInitDispatch ==
    /\ cliArgs \in SeqsUpTo(ArgTokens, MaxArgs)
    /\ fpCwd = 0
    /\ fs \in SeqsOfLen({[files |-> {}, workspaces |-> "none"], PlainProject}, 1)
    /\ cliScripts \in ScriptsOf(fs[1])
    /\ pmEnv = Null
    /\ npmrc = AbsentFile
    /\ cliEnv = NoEnv

\* install and remove with every mode, adapter option and package list, in
\* a project directory.
CliInitPackages ==
    /\ \E verb \in {<<"i","n","s","t","a","l","l">>, <<"r","e","m","o","v","e">>} :
       \E mode \in {<<>>, <<<<"-","D">>>>, <<<<"-","O">>>>, <<<<"-","-","s","a","v","e","-","o","p","t","i","o","n","a","l">>, <<"-","-","s","a","v","e","-","d","e","v">>>>} :
       \E pm \in {<<>>, <<<<"-","-","n","p","m">>>>, <<<<"-","-","y","a","r","n">>>>, <<<<"-","-","p","n","p","m">>>>, <<<<"-","-","b","u","n">>>>, <<<<"-","-","n","p","m">>, <<"-","-","p","n","p","m">>>>} :
       \E pkgs \in SeqsUpTo(PkgArgs, MaxPkgs) :
          cliArgs = <<verb>> \o mode \o pm \o pkgs
    /\ fpCwd = 0
    /\ fs = <<PlainProject>>
    /\ cliScripts = Null
    /\ pmEnv \in {Null, Some(<<"p","n","p","m","/","8",".","1"," ","n","p","m","/","?">>)}
    /\ npmrc \in {AbsentFile, [st |-> "file", content |-> <<"x","=","1">>]}
    /\ cliEnv = NoEnv

\* install of one package in a directory tree with workspaces.
CliInitWorkspace ==
    /\ \E pm \in {<<>>, <<<<"-","-","y","a","r","n">>>>, <<<<"-","-","b","u","n">>>>, <<<<"-","-","p","n","p","m">>>>} : cliArgs = <<<<"i","n","s","t","a","l","l">>, <<"@","s","t","d","/","f","s">>>> \o pm
    /\ fpCwd \in 0..2
    /\ fs \in SeqsOfLen(CliDirContents, fpCwd + 1)
    /\ cliScripts = Null
    /\ pmEnv = Null
    /\ npmrc \in {AbsentFile, [st |-> "readonly", content |-> <<"x","=","1">>]}
    /\ cliEnv = NoEnv

\* publish with its arguments, with and without a package.json.
CliInitPublish ==
    /\ \E publishArgs \in SeqsUpTo({<<"-","-","d","r","y","-","r","u","n">>, <<"-","-","v","e","r","b","o","s","e">>, <<"-","-","n","o","-","c","h","e","c","k">>}, MaxArgs) :
          cliArgs = <<<<"p","u","b","l","i","s","h">>>> \o publishArgs
    /\ fpCwd \in 0..1
    /\ fs \in SeqsOfLen({[files |-> {}, workspaces |-> "none"], PlainProject}, fpCwd + 1)
    /\ cliScripts = Null
    /\ pmEnv = Null
    /\ npmrc = AbsentFile
    /\ cliEnv \in [DENO_BIN_PATH : {Null, Some("/bin/deno")},
                   DENO_DISABLE_PEDANTIC_NODE_WARNINGS : {Null, Some("true"), Some("0")}]

CliInit ==
    /\ CliInitDispatch \/ CliInitPackages \/ CliInitWorkspace \/ CliInitPublish
    /\ CliStart

\* The top level of bin.ts.
Main ==
    /\ cliPc = "main"
    /\ LET r == BinMain(cliArgs, FileExists(fs[1], "package.json"), cliScripts)
       IN  /\ cliPc' = r.pc
           /\ cliExit' = r.exit
           /\ cliCtx' = r.ctx
           /\ pmFlag' = r.pkgManagerName
    /\ UNCHANGED <<cliArgs, cliScripts, cliSpawned, cliEnv, pkgVars, findVars, rcVars,
                   pmEnv, pmPc, pmFromEnv, pmFromLockfile, pmAdapter>>

\* getPackages(options.positionals, allowEmpty), inside run: JsrPackage.from
\* of every positional after the verb, then the check for none.
GetPackages ==
    /\ cliPc = "getPackages"
    /\ LET pkgArgs == Slice1(Positionals(cliArgs))
           parsed == [k \in 1..Len(pkgArgs) |-> JsrPackageFrom(pkgArgs[k])]
           allowEmpty == cliCtx.fn = "install"
       IN  IF \E k \in 1..Len(parsed) : ~parsed[k].ok
           THEN /\ cliPc' = RunCatch(JsrPackageNameError).pc
                /\ cliExit' = RunCatch(JsrPackageNameError).exit
                /\ cliCtx' = [cliCtx EXCEPT !.error = JsrPackageNameError.type]
           ELSE IF ~allowEmpty /\ Len(pkgArgs) = 0
           THEN /\ cliPc' = "exited"
                /\ cliExit' = Some(1)
                /\ UNCHANGED cliCtx
           ELSE /\ cliPc' = "getPkgManager"
                /\ cliExit' = Null
                /\ cliCtx' = [cliCtx EXCEPT !.packages = [k \in 1..Len(parsed) |-> parsed[k].pkg]]
    /\ UNCHANGED <<cliArgs, cliScripts, cliSpawned, cliEnv, pkgVars, findVars, pmVars, rcVars>>

\* install going on to the adapter without the registry configuration.
AfterGetPkgManagerSkipsConfigure(ctx) == "invoke"

\* Every command configures the registry.
AfterGetPkgManagerAlwaysConfigures(ctx) == "configure"

\* Where install, remove and runScript go on after getPkgManager.
AfterGetPkgManager(ctx) ==
    IF ctx.fn = "install" /\ Len(ctx.packages) > 0 THEN "configure" ELSE "invoke"

\* getPkgManager(process.cwd(), options.pkgManagerName) up to its return, or
\* to `yarn --version` for yarn.
GetPkgManager ==
    /\ cliPc = "getPkgManager"
    /\ LET fromEnv == IF pmEnv # Null THEN GetPkgManagerFromEnv(pmEnv[1]) ELSE Null
           info == ProjectInfo
           result == SelectResult(pmFlag, fromEnv, info.pkgManagerName)[1]
           ctx == [cliCtx EXCEPT !.projectDir = Some(info.projectDir),
                                 !.root = Some(GetPkgManagerRoot(info))]
       IN  IF result = "yarn"
           THEN /\ cliSpawned' = Append(cliSpawned,
                                        Subprocess("yarn", <<<<"-","-","v","e","r","s","i","o","n">>>>, info.projectDir,
                                                   Null, TRUE))
                /\ cliPc' = "exec"
                /\ cliCtx' = [ctx EXCEPT !.step = "yarnVersion"]
                /\ pmAdapter' = Null
           ELSE /\ pmAdapter' = Some([class |-> IF result = "pnpm" THEN "Pnpm"
                                                ELSE IF result = "bun" THEN "Bun" ELSE "Npm",
                                      cwd |-> info.projectDir])
                /\ cliPc' = AfterGetPkgManager(ctx)
                /\ cliCtx' = ctx
                /\ UNCHANGED cliSpawned
    /\ UNCHANGED <<cliArgs, cliScripts, cliExit, cliEnv, pkgVars, findVars, rcVars,
                   pmFlag, pmEnv, pmPc, pmFromEnv, pmFromLockfile>>

\* "npmScopes.jsr.npmRegistryServer"
JSR_YARN_BERRY_CONFIG_KEY ==
    <<"n","p","m","S","c","o","p","e","s",".","j","s","r",".","n","p","m","R","e","g","i","s","t","r","y","S","e","r","v","e","r">>

\* install, lines 96-111: which registry configuration the adapter gets.
\* Bun is asked first whether it reads .npmrc (`bun --version`).
Configure ==
    /\ cliPc = "configure"
    /\ LET class == pmAdapter[1].class
           cwd == pmAdapter[1].cwd
       IN  IF class = "Bun"
           THEN /\ cliSpawned' = Append(cliSpawned,
                                        Subprocess("bun", <<<<"-","-","v","e","r","s","i","o","n">>>>, cwd, Null, TRUE))
                /\ cliPc' = "exec"
                /\ cliCtx' = [cliCtx EXCEPT !.step = "bunVersion"]
           ELSE IF class = "YarnBerry"
           THEN /\ cliSpawned' = Append(cliSpawned,
                                        Subprocess("yarn",
                                                   <<<<"c","o","n","f","i","g">>, <<"s","e","t">>, JSR_YARN_BERRY_CONFIG_KEY,
                                                     JSR_NPM_REGISTRY_URL>>,
                                                   cwd, Null, FALSE))
                /\ cliPc' = "exec"
                /\ cliCtx' = [cliCtx EXCEPT !.step = "setConfigValue"]
           ELSE /\ cliPc' = "setupNpmRc"
                /\ UNCHANGED <<cliSpawned, cliCtx>>
    /\ UNCHANGED <<cliArgs, cliScripts, cliExit, cliEnv, pkgVars, findVars, pmVars, rcVars>>

\* A call of a configuration writer with the directory it was given.
CallIn(call, dir) ==
    [fn |-> call.fn, before |-> call.before, after |-> call.after,
     outcome |-> call.outcome, wrote |-> call.wrote, dir |-> dir]

\* setupNpmRc given the project directory instead of root.
CliSetupNpmRcInProjectDir ==
    /\ cliPc = "setupNpmRc"
    /\ LET call == SetupNpmRcCall(npmrc)
       IN  /\ npmrc' = call.after
           /\ rcLog' = Append(rcLog, CallIn(call, cliCtx.projectDir[1]))
           /\ cliPc' = IF call.outcome = "ok" THEN "invoke" ELSE RunCatch(OtherError).pc
           /\ cliExit' = IF call.outcome = "ok" THEN Null ELSE RunCatch(OtherError).exit
           /\ cliCtx' = IF call.outcome = "ok" THEN cliCtx
                        ELSE [cliCtx EXCEPT !.error = OtherError.type]
    /\ UNCHANGED <<cliArgs, cliScripts, cliSpawned, cliEnv, pkgVars, findVars, pmVars,
                   bunfig, raceVars>>

\* await setupNpmRc(root): an error of the file system is no ExecError
CliSetupNpmRc ==
    /\ cliPc = "setupNpmRc"
    /\ LET call == SetupNpmRcCall(npmrc)
       IN  /\ npmrc' = call.after
           /\ rcLog' = Append(rcLog, CallIn(call, cliCtx.root[1]))
           /\ cliPc' = IF call.outcome = "ok" THEN "invoke" ELSE RunCatch(OtherError).pc
           /\ cliExit' = IF call.outcome = "ok" THEN Null ELSE RunCatch(OtherError).exit
           /\ cliCtx' = IF call.outcome = "ok" THEN cliCtx
                        ELSE [cliCtx EXCEPT !.error = OtherError.type]
    /\ UNCHANGED <<cliArgs, cliScripts, cliSpawned, cliEnv, pkgVars, findVars, pmVars,
                   bunfig, raceVars>>

\* await setupBunfigToml(root)
CliSetupBunfigToml ==
    /\ cliPc = "setupBunfigToml"
    /\ LET call == SetupBunfigTomlCall(bunfig)
       IN  /\ bunfig' = call.after
           /\ rcLog' = Append(rcLog, CallIn(call, cliCtx.root[1]))
           /\ cliPc' = IF call.outcome = "ok" THEN "invoke" ELSE RunCatch(OtherError).pc
           /\ cliExit' = IF call.outcome = "ok" THEN Null ELSE RunCatch(OtherError).exit
           /\ cliCtx' = IF call.outcome = "ok" THEN cliCtx
                        ELSE [cliCtx EXCEPT !.error = OtherError.type]
    /\ UNCHANGED <<cliArgs, cliScripts, cliSpawned, cliEnv, pkgVars, findVars, pmVars,
                   npmrc, raceVars>>

\* The latest version the registry reports for a package.
LatestVersions == {<<"1",".","2",".","3">>}

\* pkgManager.install(packages, options), pkgManager.remove(packages) or
\* pkgManager.runScript(script) up to the subprocess.  YarnBerry.install
\* first starts, in toPackageArgs, a version lookup for every package that
\* has no version, and awaits them all.
Invoke ==
    /\ cliPc = "invoke"
    /\ LET class == pmAdapter[1].class
           cwd == pmAdapter[1].cwd
           fetches == cliCtx.fn = "install" /\ class = "YarnBerry"
                         /\ \E k \in 1..Len(cliCtx.packages) : cliCtx.packages[k].version = Null
       IN  IF fetches
           THEN /\ cliPc' = "toPackageArgs"
                /\ cliCtx' = [cliCtx EXCEPT !.lookups =
                                 [k \in 1..Len(cliCtx.packages) |->
                                     IF cliCtx.packages[k].version = Null THEN "pending"
                                     ELSE "none"]]
                /\ UNCHANGED <<cliExit, cliSpawned>>
           ELSE LET call == IF cliCtx.fn = "install"
                            THEN AdapterInstall(class, cliCtx.packages, cliCtx.mode)
                            ELSE IF cliCtx.fn = "remove"
                            THEN AdapterRemove(class, cliCtx.packages)
                            ELSE AdapterRunScript(class, cliCtx.script)
                IN  /\ cliSpawned' = Append(cliSpawned,
                                            Subprocess(call.cmd, call.args, cwd, Null, FALSE))
                    /\ cliPc' = "exec"
                    /\ cliExit' = Null
                    /\ cliCtx' = [cliCtx EXCEPT !.step = "last"]
    /\ UNCHANGED <<cliArgs, cliScripts, cliEnv, pkgVars, findVars, pmVars, rcVars>>

\* One of the lookups Promise.all awaits ends, in any order:
\* getLatestPackageVersion(pkg) returns latest and the callback sets
\* pkg.version, or it throws (the response is not ok, or has no latest),
\* Promise.all rejects and the error leaves install.
GetLatestPackageVersion ==
    /\ cliPc = "toPackageArgs"
    /\ \E k \in 1..Len(cliCtx.packages) :
          /\ cliCtx.lookups[k] = "pending"
          /\ \E fetched \in {Null} \cup {Some(v) : v \in LatestVersions} :
                IF fetched = Null
                THEN /\ cliPc' = RunCatch(OtherError).pc
                     /\ cliExit' = RunCatch(OtherError).exit
                     /\ cliCtx' = [cliCtx EXCEPT !.error = OtherError.type,
                                                 !.lookups[k] = "rejected"]
                ELSE /\ cliCtx' = [cliCtx EXCEPT
                                      !.packages[k] = BackfillVersion(cliCtx.packages[k], fetched[1]),
                                      !.lookups[k] = "resolved"]
                     /\ UNCHANGED <<cliPc, cliExit>>
    /\ UNCHANGED <<cliArgs, cliScripts, cliSpawned, cliEnv, pkgVars, findVars, pmVars, rcVars>>

\* The lookups Promise.all waits for before it resolves.
AwaitedLookups(ctx) == { k \in 1..Len(ctx.lookups) : ctx.lookups[k] = "pending" }

\* `yarn add` spawned without awaiting the lookups.
YarnBerryInstallNoAwait ==
    /\ cliPc = "toPackageArgs"
    /\ LET call == AdapterInstall(pmAdapter[1].class, cliCtx.packages, cliCtx.mode)
       IN  /\ cliSpawned' = Append(cliSpawned,
                                   Subprocess(call.cmd, call.args, pmAdapter[1].cwd, Null, FALSE))
           /\ cliPc' = "exec"
           /\ cliExit' = Null
           /\ cliCtx' = [cliCtx EXCEPT !.step = "last"]
    /\ UNCHANGED <<cliArgs, cliScripts, cliEnv, pkgVars, findVars, pmVars, rcVars>>

\* Promise.all resolves: toPackageArgs returns toPackageArgs(pkgs) and
\* YarnBerry.install spawns `yarn add`.
YarnBerryInstall ==
    /\ cliPc = "toPackageArgs"
    /\ AwaitedLookups(cliCtx) = {}
    /\ LET call == AdapterInstall(pmAdapter[1].class, cliCtx.packages, cliCtx.mode)
       IN  /\ cliSpawned' = Append(cliSpawned,
                                   Subprocess(call.cmd, call.args, pmAdapter[1].cwd, Null, FALSE))
           /\ cliPc' = "exec"
           /\ cliExit' = Null
           /\ cliCtx' = [cliCtx EXCEPT !.step = "last"]
    /\ UNCHANGED <<cliArgs, cliScripts, cliEnv, pkgVars, findVars, pmVars, rcVars>>

\* Bun.isNpmrcSupported(): whether the installed bun reads .npmrc (bun
\* 1.1.18 and later do), found out with `bun --version`.
IsNpmrcSupportedResults == BOOLEAN

\* The "exit" event of the subprocess exec awaits: exec resolves with the
\* captured output for code 0 and rejects with ExecError otherwise; the
\* command goes on where it awaited, or run catches the error.
ExecExit ==
    /\ cliPc = "exec"
    /\ \E code \in ExitCodes :
       \E output \in (IF cliCtx.step = "yarnVersion" THEN YarnVersionOutputs ELSE {<<>>}) :
       \E isNpmrcSupported \in (IF cliCtx.step = "bunVersion" THEN IsNpmrcSupportedResults ELSE {TRUE}) :
          IF code # Some(0)
          THEN /\ cliPc' = RunCatch(ExecError(ExecErrorCode(code))).pc
               /\ cliExit' = RunCatch(ExecError(ExecErrorCode(code))).exit
               /\ cliCtx' = [cliCtx EXCEPT !.codes = Append(@, code),
                                            !.error = ExecError(ExecErrorCode(code)).type]
               /\ UNCHANGED pmAdapter
          ELSE IF cliCtx.step = "yarnVersion"
          THEN /\ pmAdapter' = Some([class |-> IF IsYarnBerry(output) THEN "YarnBerry" ELSE "Yarn",
                                     cwd |-> cliCtx.projectDir[1]])
               /\ cliPc' = AfterGetPkgManager(cliCtx)
               /\ cliCtx' = [cliCtx EXCEPT !.step = "none", !.codes = Append(@, code)]
               /\ UNCHANGED cliExit
          ELSE IF cliCtx.step = "bunVersion"
          THEN /\ cliPc' = IF isNpmrcSupported THEN "setupNpmRc" ELSE "setupBunfigToml"
               /\ cliCtx' = [cliCtx EXCEPT !.step = "none", !.codes = Append(@, code),
                                            !.isNpmrcSupported = isNpmrcSupported]
               /\ UNCHANGED <<cliExit, pmAdapter>>
          ELSE IF cliCtx.step = "setConfigValue"
          THEN /\ cliPc' = "invoke"
               /\ cliCtx' = [cliCtx EXCEPT !.step = "none", !.codes = Append(@, code)]
               /\ UNCHANGED <<cliExit, pmAdapter>>
          ELSE /\ cliPc' = Completed.pc
               /\ cliExit' = Completed.exit
               /\ cliCtx' = [cliCtx EXCEPT !.step = "none", !.codes = Append(@, code)]
               /\ UNCHANGED pmAdapter
    /\ UNCHANGED <<cliArgs, cliScripts, cliSpawned, cliEnv, pkgVars, findVars, rcVars,
                   pmFlag, pmEnv, pmPc, pmFromEnv, pmFromLockfile>>

\* The flags only pushed when the arguments have none of them.
PublishArgsUnlessGiven(pkgJsonPath, publishArgs) ==
    <<<<"p","u","b","l","i","s","h">>>>
        \o (IF pkgJsonPath # Null /\ ~HasArg(publishArgs, {<<"-","-","n","o","-","c","h","e","c","k">>})
            THEN <<<<"-","-","u","n","s","t","a","b","l","e","-","b","a","r","e","-","n","o","d","e","-","b","u","i","l","t","i","n","s">>, <<"-","-","u","n","s","t","a","b","l","e","-","s","l","o","p","p","y","-","i","m","p","o","r","t","s">>, <<"-","-","u","n","s","t","a","b","l","e","-","b","y","o","n","m">>, <<"-","-","n","o","-","c","h","e","c","k">>>>
            ELSE <<>>)
        \o SelectSeq(publishArgs, LAMBDA arg : arg # <<"-","-","v","e","r","b","o","s","e">>)

\* The arguments publish gives the deno binary.
PublishArgs(pkgJsonPath, publishArgs) ==
    <<<<"p","u","b","l","i","s","h">>>>
        \o (IF pkgJsonPath # Null
            THEN <<<<"-","-","u","n","s","t","a","b","l","e","-","b","a","r","e","-","n","o","d","e","-","b","u","i","l","t","i","n","s">>, <<"-","-","u","n","s","t","a","b","l","e","-","s","l","o","p","p","y","-","i","m","p","o","r","t","s">>, <<"-","-","u","n","s","t","a","b","l","e","-","b","y","o","n","m">>, <<"-","-","n","o","-","c","h","e","c","k">>>>
            ELSE <<>>)
        \o SelectSeq(publishArgs, LAMBDA arg : arg # <<"-","-","v","e","r","b","o","s","e">>)

\* The environment publish gives the deno binary: { ...process.env } and,
\* for a project with a package.json, the variable set to "true".
PublishEnv(pkgJsonPath, env) ==
    IF pkgJsonPath # Null
    THEN [env EXCEPT !.DENO_DISABLE_PEDANTIC_NODE_WARNINGS = Some("true")]
    ELSE env

\* run(async () => { projectInfo = await findProjectDir(process.cwd());
\* return publish(process.cwd(), {...}) }): the binary is DENO_BIN_PATH or
\* the one getOrDownloadBinPath returns, and the download may fail.
Publish ==
    /\ cliPc = "publish"
    /\ LET info == ProjectInfo
           publishArgs == Slice1(cliArgs)
       IN  \E downloaded \in (IF cliEnv.DENO_BIN_PATH # Null THEN {TRUE} ELSE BOOLEAN) :
              IF ~downloaded
              THEN /\ cliPc' = RunCatch(OtherError).pc
                   /\ cliExit' = RunCatch(OtherError).exit
                   /\ cliCtx' = [cliCtx EXCEPT !.error = OtherError.type]
                   /\ UNCHANGED cliSpawned
              ELSE /\ cliSpawned' =
                         Append(cliSpawned,
                                Subprocess(IF cliEnv.DENO_BIN_PATH # Null
                                           THEN cliEnv.DENO_BIN_PATH[1] ELSE "deno",
                                           PublishArgs(info.pkgJsonPath, publishArgs),
                                           fpCwd,
                                           Some(PublishEnv(info.pkgJsonPath, cliEnv)),
                                           FALSE))
                   /\ cliPc' = "exec"
                   /\ cliExit' = Null
                   /\ cliCtx' = [cliCtx EXCEPT !.step = "last"]
    /\ UNCHANGED <<cliArgs, cliScripts, cliEnv, pkgVars, findVars, pmVars, rcVars>>

\* The characters of a semver identifier, in ASCII order.
SemverChars ==
    <<"-","0","1","2","3","4","5","6","7","8","9",
      "A","B","C","D","E","F","G","H","I","J","K","L","M",
      "N","O","P","Q","R","S","T","U","V","W","X","Y","Z",
      "a","b","c","d","e","f","g","h","i","j","k","l","m",
      "n","o","p","q","r","s","t","u","v","w","x","y","z">>
CharCode(c) == CHOOSE i \in 1..Len(SemverChars) : SemverChars[i] = c

\* s.split(sep)
RECURSIVE Split(_, _)
Split(s, sep) ==
    LET i == IndexOf(s, sep)
    IN  IF i = -1 THEN <<s>>
        ELSE <<SubSeq(s, 1, i)>> \o Split(SubSeq(s, i + 2, Len(s)), sep)

IsNumeric(id) == id # <<>> /\ \A i \in 1..Len(id) : id[i] \in Digit

RECURSIVE ToNumber(_)
ToNumber(id) ==
    IF id = <<>> THEN 0
    ELSE ToNumber(SubSeq(id, 1, Len(id) - 1)) * 10 + (CharCode(id[Len(id)]) - CharCode("0"))

CompareNumber(a, b) == IF a < b THEN -1 ELSE IF a > b THEN 1 ELSE 0

\* Two identifiers with a letter or hyphen, in ASCII order.
RECURSIVE CompareText(_, _)
CompareText(a, b) ==
    IF a = <<>> /\ b = <<>> THEN 0
    ELSE IF a = <<>> THEN -1
    ELSE IF b = <<>> THEN 1
    ELSE IF a[1] # b[1] THEN CompareNumber(CharCode(a[1]), CharCode(b[1]))
    ELSE CompareText(Tail(a), Tail(b))

\* Two pre-release identifiers: numeric ones by number and below the others.
CompareIdentifier(a, b) ==
    IF IsNumeric(a) /\ IsNumeric(b) THEN CompareNumber(ToNumber(a), ToNumber(b))
    ELSE IF IsNumeric(a) THEN -1
    ELSE IF IsNumeric(b) THEN 1
    ELSE CompareText(a, b)

\* Two pre-release identifier lists, left to right; the shorter is lower when
\* it is a prefix of the other.
RECURSIVE ComparePrerelease(_, _)
ComparePrerelease(a, b) ==
    IF a = <<>> /\ b = <<>> THEN 0
    ELSE IF a = <<>> THEN -1
    ELSE IF b = <<>> THEN 1
    ELSE IF CompareIdentifier(a[1], b[1]) # 0 THEN CompareIdentifier(a[1], b[1])
    ELSE ComparePrerelease(Tail(a), Tail(b))

\* major.minor.patch[-prerelease] in its parts
ParseVersion(v) ==
    LET dash == IndexOf(v, "-")
        core == Split(IF dash = -1 THEN v ELSE SubSeq(v, 1, dash), ".")
    IN  [major |-> ToNumber(core[1]), minor |-> ToNumber(core[2]), patch |-> ToNumber(core[3]),
         prerelease |-> IF dash = -1 THEN <<>> ELSE Split(SubSeq(v, dash + 2, Len(v)), ".")]

\* semiver(a, b), the comparator of the semiver package: -1, 0 or 1 by semver
\* precedence; a version with a pre-release is below the same version
\* without one.
Semiver(a, b) ==
    LET x == ParseVersion(a)
        y == ParseVersion(b)
    IN  IF x.major # y.major THEN CompareNumber(x.major, y.major)
        ELSE IF x.minor # y.minor THEN CompareNumber(x.minor, y.minor)
        ELSE IF x.patch # y.patch THEN CompareNumber(x.patch, y.patch)
        ELSE IF x.prerelease = <<>> /\ y.prerelease = <<>> THEN 0
        ELSE IF x.prerelease = <<>> THEN 1
        ELSE IF y.prerelease = <<>> THEN -1
        ELSE ComparePrerelease(x.prerelease, y.prerelease)

\* versions.sort(compare): ascending and stable.
RECURSIVE Insert(_, _, _)
Insert(compare(_, _), sorted, v) ==
    IF sorted = <<>> THEN <<v>>
    ELSE IF compare(v, sorted[1]) < 0 THEN <<v>> \o sorted
    ELSE <<sorted[1]>> \o Insert(compare, Tail(sorted), v)

RECURSIVE Sort(_, _)
Sort(compare(_, _), versions) ==
    IF versions = <<>> THEN <<>>
    ELSE Insert(compare, Sort(compare, SubSeq(versions, 1, Len(versions) - 1)),
                versions[Len(versions)])

\* meta.latest: undefined, null or a string
Latest(kind, value) == [kind |-> kind, value |-> value]

\* The last version of the sorted list instead of the first.
ResolveVersionLastSorted(version, meta) ==
    IF version # Null THEN [threw |-> FALSE, version |-> version]
    ELSE IF meta.latest.kind = "undefined" THEN [threw |-> TRUE, version |-> Null]
    ELSE IF meta.latest.kind = "null"
    THEN IF Len(meta.versions) = 0 THEN [threw |-> TRUE, version |-> Null]
         ELSE [threw |-> FALSE,
               version |-> Some(Sort(Semiver, meta.versions)[Len(meta.versions)])]
    ELSE [threw |-> FALSE, version |-> Some(meta.latest.value)]

\* showPackageInfo: pkg.version after `if (pkg.version === null) { ... }`, or
\* the throw inside it.
ResolveVersion(version, meta) ==
    IF version # Null THEN [threw |-> FALSE, version |-> version]
    ELSE IF meta.latest.kind = "undefined" THEN [threw |-> TRUE, version |-> Null]
    ELSE IF meta.latest.kind = "null"
    THEN IF Len(meta.versions) = 0 THEN [threw |-> TRUE, version |-> Null]
         ELSE [threw |-> FALSE, version |-> Some(Sort(Semiver, meta.versions)[1])]
    ELSE [threw |-> FALSE, version |-> Some(meta.latest.value)]

\* The most keys of meta.versions.
MaxVersions == 2

\* The versions a package has published.
PublishedVersions ==
    {<<"1",".","0",".","0","-","r","c",".","1">>,
     <<"0",".","9",".","0","-","r","c",".","2">>,
     <<"0",".","1","0",".","0","-","a","l","p","h","a">>}

\* What meta.json of a package can hold: the keys of versions in the order
\* of the document, each once.
PackageMetas ==
    { [latest |-> latest, versions |-> versions] :
        latest \in {Latest("undefined", <<>>), Latest("null", <<>>), Latest("string", <<"1",".","0",".","0">>)},
        versions \in { vs \in SeqsUpTo(PublishedVersions, MaxVersions) :
                         \A i, j \in 1..Len(vs) : i # j => vs[i] # vs[j] } }

\* run(async () => { await showPackageInfo(pkgName) }): JsrPackage.from may
\* throw, the two fetches may fail, and the version is resolved between
\* them.
Show ==
    /\ cliPc = "show"
    /\ LET from == JsrPackageFrom(cliArgs[2])
       IN  IF ~from.ok
           THEN /\ cliPc' = RunCatch(JsrPackageNameError).pc
                /\ cliExit' = RunCatch(JsrPackageNameError).exit
                /\ cliCtx' = [cliCtx EXCEPT !.error = JsrPackageNameError.type]
           ELSE \E fetched \in BOOLEAN, meta \in PackageMetas, printed \in BOOLEAN :
                   IF ~fetched
                   THEN /\ cliPc' = RunCatch(OtherError).pc
                        /\ cliExit' = RunCatch(OtherError).exit
                        /\ cliCtx' = [cliCtx EXCEPT !.error = OtherError.type,
                                                    !.version = from.pkg.version]
                   ELSE LET resolved == ResolveVersion(from.pkg.version, meta)
                        IN  IF resolved.threw \/ ~printed
                            THEN /\ cliPc' = RunCatch(OtherError).pc
                                 /\ cliExit' = RunCatch(OtherError).exit
                                 /\ cliCtx' = [cliCtx EXCEPT !.error = OtherError.type,
                                                             !.meta = meta,
                                                             !.version = resolved.version]
                            ELSE /\ cliPc' = Completed.pc
                                 /\ cliExit' = Completed.exit
                                 /\ cliCtx' = [cliCtx EXCEPT !.meta = meta,
                                                             !.version = resolved.version]
    /\ UNCHANGED <<cliArgs, cliScripts, cliSpawned, cliEnv, pkgVars, findVars, pmVars, rcVars>>

CliNext ==
    \/ Main
    \/ GetPackages
    \/ GetPkgManager
    \/ Configure
    \/ CliSetupNpmRc
    \/ CliSetupBunfigToml
    \/ Invoke
    \/ GetLatestPackageVersion
    \/ YarnBerryInstall
    \/ ExecExit
    \/ Publish
    \/ Show

SpecCli == CliInit /\ [][CliNext]_vars

-----------------------------------------------------------------------------
(* Claims about the command line                                           *)

Ended == cliPc \in {"exited", "uncaught", "completed"}

\* C11: a subprocess that exits with a code c other than 0 ends the jsr
\* process with exit code c (1 when c is null), with no subprocess spawned
\* after it; every subprocess before it exited with 0.  A
\* JsrPackageNameError ends the process with exit code 1, and any other
\* error is thrown again by run.
C11_ExitCodePropagated ==
    /\ \A k \in 1..Len(cliCtx.codes) :
          cliCtx.codes[k] # <<0>> =>
              /\ k = Len(cliCtx.codes)
              /\ Len(cliSpawned) = k
              /\ cliPc = "exited"
              /\ cliCtx.error = "ExecError"
              /\ cliExit = IF cliCtx.codes[k] = <<>> THEN <<1>> ELSE cliCtx.codes[k]
    /\ cliCtx.error = "JsrPackageNameError" => cliPc = "exited" /\ cliExit = <<1>>
    /\ cliCtx.error = "Error" => cliPc = "uncaught"

\* C11 witness: the second subprocess of an install (yarn add, after
\* yarn --version) exited with code 3 and the process with it.
C11_Witness ==
    /\ cliPc = "exited"
    /\ cliCtx.fn = "install"
    /\ cliCtx.codes = <<<<0>>, <<3>>>>
    /\ cliExit = <<3>>
    /\ Len(cliSpawned) = 2

KnownVerbs ==
    {<<"i","n","s","t","a","l","l">>, <<"i">>, <<"a","d","d">>, <<"r","e","m","o","v","e">>, <<"r">>, <<"u","n","i","n","s","t","a","l","l">>, <<"r","u","n">>, <<"p","u","b","l","i","s","h">>,
     <<"s","h","o","w">>, <<"v","i","e","w">>, <<"i","n","f","o">>}

\* C12: when the first argument is a word that is no known verb and no
\* script of the package.json of the current directory (there may be no
\* package.json), the process exits with code 1 and spawns nothing; when it
\* is such a script, the script is run through the adapter.  (Read for
\* command lines without -h, --help, -v and --version.)
C12_UnknownCommandExitsOne ==
    (/\ cliPc # "main"
     /\ Len(cliArgs) >= 1
     /\ cliArgs[1] \notin KnownVerbs
     /\ cliArgs[1][1] # "-"
     /\ \A k \in 1..Len(cliArgs) : cliArgs[k] \notin {<<"-","h">>, <<"-","-","h","e","l","p">>, <<"-","v">>, <<"-","-","v","e","r","s","i","o","n">>})
    => IF cliScripts # <<>> /\ cliArgs[1] \in cliScripts[1]
          /\ \A k \in 1..Len(cliArgs) : cliArgs[k] # <<"-","-","v","e","r","b","o","s","e">>
       THEN /\ cliCtx.fn = "runScript"
            /\ cliCtx.script = cliArgs[1]
            /\ \A k \in 1..Len(cliSpawned) :
                  ~cliSpawned[k].captureOutput =>
                      cliSpawned[k].args \in {<<<<"r","u","n">>, cliArgs[1]>>, <<cliArgs[1]>>}
       ELSE /\ cliPc \in {"exited", "uncaught"}
            /\ cliExit = <<1>>
            /\ cliSpawned = <<>>

\* C12 failing case: `jsr constructor` where package.json has an empty
\* `scripts` object has spawned `npm run constructor`.
C12_Witness ==
    /\ cliArgs = <<<<"c","o","n","s","t","r","u","c","t","o","r">>>>
    /\ cliScripts = <<{}>>
    /\ Len(cliSpawned) = 1
    /\ cliSpawned[1].cmd = "npm"
    /\ cliSpawned[1].args = <<<<"r","u","n">>, <<"c","o","n","s","t","r","u","c","t","o","r">>>>

\* The subprocesses that are an adapter's install: not a version probe,
\* not `yarn config set`, in a run of install.
InstallSpawns ==
    { k \in 1..Len(cliSpawned) :
        /\ cliCtx.fn = "install"
        /\ ~cliSpawned[k].captureOutput
        /\ cliSpawned[k].args[1] \in {<<"i","n","s","t","a","l","l">>, <<"a","d","d">>} }

OptionsIn(args) == { k \in 1..Len(args) : args[k][1] = "-" }

\* C13: an adapter's install has exactly one mode flag in dev and optional
\* mode and none in prod mode, right after the verb and so before the
\* packages: --save-dev / --save-optional for npm and pnpm, --dev /
\* --optional for yarn and bun.
C13_OneModeFlag ==
    \A k \in InstallSpawns :
        LET cmd == cliSpawned[k].cmd
            args == cliSpawned[k].args
            mode == cliCtx.mode
        IN  IF mode = "prod" THEN OptionsIn(args) = {}
            ELSE /\ OptionsIn(args) = {2}
                 /\ args[2] =
                       IF cmd \in {"npm", "pnpm"}
                       THEN IF mode = "dev" THEN <<"-","-","s","a","v","e","-","d","e","v">>
                            ELSE <<"-","-","s","a","v","e","-","o","p","t","i","o","n","a","l">>
                       ELSE IF mode = "dev" THEN <<"-","-","d","e","v">> ELSE <<"-","-","o","p","t","i","o","n","a","l">>

\* C13 witness: `jsr install -D --yarn @std/fs@1.0.0 @std/fs` with yarn
\* classic has spawned yarn add --dev and the two packages.
C13_Witness ==
    /\ cliCtx.mode = "dev"
    /\ Len(cliSpawned) = 2
    /\ cliSpawned[2].cmd = "yarn"
    /\ Len(cliSpawned[2].args) = 4
    /\ cliSpawned[2].args[1] = <<"a","d","d">>
    /\ cliSpawned[2].args[2] = <<"-","-","d","e","v">>
    /\ cliSpawned[2].args[3][1] = "@"

\* The package strings of the command line and the package arguments of a
\* subprocess.
PackageInputs == Slice1(Positionals(cliArgs))
PackageArgsOf(args) == SelectSeq(args, LAMBDA arg : arg[1] = "@")

\* `@scope/name@npm:@jsr/scope__name` for the package a string names
AliasOf(input) ==
    LET pkg == JsrPackageFrom(input).pkg
    IN  <<"@">> \o pkg.scope \o <<"/">> \o pkg.name \o <<"@","n","p","m",":">>
            \o <<"@","j","s","r","/">> \o pkg.scope \o <<"_","_">> \o pkg.name

\* C14: every adapter's install gives each package as
\* @scope/name@npm:@jsr/scope__name[@version], in the order of the command
\* line: with the version of the command line unchanged if it has one, and
\* else with no version, or for yarn berry with ^ and the latest version of
\* the registry.
C14_PackageArgFormat ==
    \A k \in InstallSpawns :
        LET given == PackageArgsOf(cliSpawned[k].args)
        IN  /\ Len(given) = Len(PackageInputs)
            /\ \A j \in 1..Len(given) :
                  LET version == JsrPackageFrom(PackageInputs[j]).pkg.version
                  IN  IF version # <<>>
                      THEN given[j] = AliasOf(PackageInputs[j]) \o <<"@">> \o version[1]
                      ELSE IF pmAdapter[1].class = "YarnBerry"
                      THEN given[j] = AliasOf(PackageInputs[j]) \o <<"@","^","1",".","2",".","3">>
                      ELSE given[j] = AliasOf(PackageInputs[j])

\* C14 witness: yarn berry was given @std/fs@1.0.0 and @jsr/std__log; the
\* first keeps its version and the second got ^1.2.3.
C14_Witness ==
    /\ pmAdapter # <<>>
    /\ pmAdapter[1].class = "YarnBerry"
    /\ InstallSpawns # {}
    /\ PackageInputs = <<<<"@","s","t","d","/","f","s","@","1",".","0",".","0">>, <<"@","j","s","r","/","s","t","d","_","_","l","o","g">>>>
    /\ PackageArgsOf(cliSpawned[Len(cliSpawned)].args) =
          <<<<"@","s","t","d","/","f","s","@","n","p","m",":","@","j","s","r","/","s","t","d","_","_","f","s","@","1",".","0",".","0">>,
            <<"@","s","t","d","/","l","o","g","@","n","p","m",":","@","j","s","r","/","s","t","d","_","_","l","o","g","@","^","1",".","2",".","3">>>>

\* C15: install without packages spawns the manager's plain install with
\* every adapter (npm, yarn, yarn berry, pnpm, bun), not `add` with no
\* package arguments.
C15_BareInstallForAll ==
    \A k \in InstallSpawns :
        PackageInputs = <<>> =>
            cliSpawned[k].args[1] = <<"i","n","s","t","a","l","l">>

\* C15 failing case: `jsr i --yarn` has spawned `yarn add`.
C15_Witness ==
    /\ cliArgs = <<<<"i">>, <<"-","-","y","a","r","n">>>>
    /\ Len(cliSpawned) > 0
    /\ cliSpawned[Len(cliSpawned)].cmd = "yarn"
    /\ cliSpawned[Len(cliSpawned)].args = <<<<"a","d","d">>>>

\* The subprocess of publish, if it was started.
PublishSpawns == { k \in 1..Len(cliSpawned) : cliCtx.fn = "publish" }

CompatibilityFlags ==
    <<<<"-","-","u","n","s","t","a","b","l","e","-","b","a","r","e","-","n","o","d","e","-","b","u","i","l","t","i","n","s">>,
      <<"-","-","u","n","s","t","a","b","l","e","-","s","l","o","p","p","y","-","i","m","p","o","r","t","s">>,
      <<"-","-","u","n","s","t","a","b","l","e","-","b","y","o","n","m">>,
      <<"-","-","n","o","-","c","h","e","c","k">>>>

\* The arguments of the command line after `publish`, without --verbose.
GivenPublishArgs ==
    SelectSeq(Slice1(cliArgs), LAMBDA arg : arg # <<"-","-","v","e","r","b","o","s","e">>)

\* C16: publish starts the arguments with `publish`; it adds the four
\* compatibility flags and sets DENO_DISABLE_PEDANTIC_NODE_WARNINGS to
\* "true" if findProjectDir located a package.json, and adds nothing to the
\* arguments and the environment if it located none.
C16_FlagsIffPackageJson ==
    \A k \in PublishSpawns :
        LET args == cliSpawned[k].args
            env == cliSpawned[k].env[1]
        IN  /\ args[1] = <<"p","u","b","l","i","s","h">>
            /\ IF ProjectInfo.pkgJsonPath # <<>>
               THEN /\ args = <<<<"p","u","b","l","i","s","h">>>> \o CompatibilityFlags \o GivenPublishArgs
                    /\ env.DENO_DISABLE_PEDANTIC_NODE_WARNINGS = <<"true">>
                    /\ env.DENO_BIN_PATH = cliEnv.DENO_BIN_PATH
               ELSE /\ args = <<<<"p","u","b","l","i","s","h">>>> \o GivenPublishArgs
                    /\ env = cliEnv

\* C16 witness: `jsr publish --no-check --dry-run` in a project whose
\* package.json is in the parent directory has started deno with the four
\* flags before the given arguments and with the variable replaced by
\* "true".
C16_Witness ==
    /\ cliArgs = <<<<"p","u","b","l","i","s","h">>, <<"-","-","n","o","-","c","h","e","c","k">>, <<"-","-","d","r","y","-","r","u","n">>>>
    /\ fpCwd = 1
    /\ ~FileExists(fs[1], "package.json")
    /\ FileExists(fs[2], "package.json")
    /\ cliEnv.DENO_DISABLE_PEDANTIC_NODE_WARNINGS = <<"0">>
    /\ Len(cliSpawned) = 1
    /\ cliSpawned[1].args = <<<<"p","u","b","l","i","s","h">>>> \o CompatibilityFlags \o <<<<"-","-","n","o","-","c","h","e","c","k">>, <<"-","-","d","r","y","-","r","u","n">>>>
    /\ cliSpawned[1].env[1].DENO_DISABLE_PEDANTIC_NODE_WARNINGS = <<"true">>

\* showPackageInfo has run for a well-formed package name.
Shown ==
    /\ cliCtx.fn = "show"
    /\ cliPc \in {"completed", "uncaught"}
    /\ JsrPackageFrom(cliArgs[2]).ok

InWorkspaceMember ==
    /\ fpCwd >= 1
    /\ \/ FileExists(fs[2], "package.json") /\ fs[2].workspaces # "none"
       \/ FileExists(fs[2], "pnpm-workspace.yaml")

\* install with a package has configured the registry and started the
\* adapter's install.
InstalledPackage ==
    /\ cliCtx.fn = "install"
    /\ Len(cliCtx.packages) > 0
    /\ InstallSpawns # {}

\* The calls of setupNpmRc that ended well in the directory dir.
NpmRcWrittenIn(dir) ==
    { k \in 1..Len(rcLog) :
        rcLog[k].fn = "setupNpmRc" /\ rcLog[k].outcome = "ok" /\ rcLog[k].dir = dir }

HigherRootVisited ==
    /\ fpCwd >= 2
    /\ DetectedLockfiles(fs[2]) = {}
    /\ DeclaresWorkspace(fs[3])

\* The adapter is configured through .npmrc: not yarn berry, and not a bun
\* that does not read .npmrc.
UsesNpmRc ==
    /\ pmAdapter # <<>>
    /\ pmAdapter[1].class # "YarnBerry"
    /\ pmAdapter[1].class = "Bun" => cliCtx.isNpmrcSupported

DigitScope(s) ==
    /\ Len(s) >= 2
    /\ s[1] \in {"0","1","2","3","4","5","6","7","8","9"}
    /\ \A k \in 2..Len(s) : s[k] \in IdentChars

\* The input names a package with such a scope, in canonical or proxy form.
DigitScopeInput ==
    \E s \in PkgScopes, m \in PkgNames :
        /\ DigitScope(s)
        /\ MatchesNamePattern(m)
        /\ pkgInput \in {<<"@">> \o s \o <<"/">> \o m,
                         <<"@","j","s","r","/">> \o s \o <<"_","_">> \o m}

\* C19: JsrPackage.from returns a package, and does not throw, for a scope
\* that starts with a digit, in canonical form (@0a/c) and in proxy form
\* (@jsr/0a__c).
C19_DigitScopeAccepted ==
    (pkgPc # "start" /\ DigitScopeInput) => (pkgPc # "thrown" /\ pkgRes.ok)

\* C19 failing case: JsrPackage.from("@jsr/0a__c") has thrown.
C19_Witness ==
    /\ pkgInput = <<"@","j","s","r","/","0","a","_","_","c">>
    /\ pkgPc = "thrown"

\* C20: findProjectDir reports bun for a start directory that holds bun's
\* lockfile in either variant, bun.lockb or bun.lock (and no
\* package-lock.json, which is looked for first).
C20_BunLockEitherVariant ==
    ( /\ fpPc = "returned"
      /\ fs[1].files \cap {"bun.lockb", "bun.lock"} # {}
      /\ "package-lock.json" \notin fs[1].files ) =>
        fpResult.pkgManagerName = <<"bun">>

\* C20 failing case: the start directory holds only bun.lock; the walk went
\* on to the file system root and returned no package manager.
C20_Witness ==
    /\ fpPc = "returned"
    /\ fs[1].files = {"bun.lock"}
    /\ fpDir = 0
    /\ fpCwd >= 1
    /\ fpResult.pkgManagerName = <<>>

\* C21: a directory is returned as root only if it lies strictly above the
\* project directory and declares the project a member: its package.json
\* has a workspaces array that matches, or a pnpm-workspace.yaml is beside
\* it.  A workspaces array that does not match gives no root.
C21_RootOnlyForMember ==
    (fpPc = "returned" /\ fpResult.root # <<>>) =>
        LET c == fs[FsIndex(fpResult.root[1])]
        IN  /\ fpResult.root[1] < fpResult.projectDir
            /\ "package.json" \in c.files
            /\ c.workspaces = "member" \/ "pnpm-workspace.yaml" \in c.files

\* C21 failing case: the parent's workspaces array does not match the
\* project directory, there is no pnpm-workspace.yaml, and the parent was
\* returned as root.
C21_Witness ==
    /\ fpPc = "returned"
    /\ fpCwd >= 1
    /\ Len(fs) >= 2
    /\ "package.json" \in fs[1].files
    /\ fs[2].files = {"package.json"}
    /\ fs[2].workspaces = "other"
    /\ fpResult.projectDir = fpCwd
    /\ fpResult.root = <<fpCwd - 1>>

\* The lockfiles of the four package managers, bun's in both variants.
LockfilesIn(c) ==
    c.files \cap {"package-lock.json", "bun.lockb", "bun.lock", "yarn.lock", "pnpm-lock.yaml"}

\* C22: the walk goes past no directory that contains a lockfile; it returns
\* at the first one that does, with pkgManagerName set, and otherwise at the
\* file system root with pkgManagerName null.
C22_ReturnsAtFirstLockfile ==
    /\ fpPc = "call" => \A k \in 1..Visited : LockfilesIn(fs[k]) = {}
    /\ fpPc = "returned" =>
          /\ \A k \in 1..(Visited - 1) : LockfilesIn(fs[k]) = {}
          /\ IF LockfilesIn(fs[Visited]) # {}
             THEN fpResult.pkgManagerName # <<>>
             ELSE fpDir = 0 /\ fpResult.pkgManagerName = <<>>

\* C22 failing case: the walk went past a start directory that holds
\* bun.lock and returned yarn from the yarn.lock of the parent.
C22_Witness ==
    /\ fpPc = "returned"
    /\ fpCwd >= 1
    /\ Visited = 2
    /\ fs[1].files = {"package.json", "bun.lock"}
    /\ "yarn.lock" \in fs[2].files
    /\ fpResult.pkgManagerName = <<"yarn">>

\* The steps of registry configuration a run has taken: the calls of the two
\* file writers and the spawns of `yarn config set`.
ConfigCalls(fn) == { k \in 1..Len(rcLog) : rcLog[k].fn = fn }
ConfigSetSpawns ==
    { k \in 1..Len(cliSpawned) :
        Len(cliSpawned[k].args) >= 2
          /\ cliSpawned[k].args[1] = <<"c","o","n","f","i","g">>
          /\ cliSpawned[k].args[2] = <<"s","e","t">> }

\* C23: when install with packages has spawned the adapter's install, exactly
\* one configuration step was taken before, the one of the adapter (bun that
\* does not read .npmrc: setupBunfigToml; yarn berry: setConfigValue; else
\* setupNpmRc), and it had ended well; after a configuration step that
\* failed no install is spawned.
C23_ConfiguredBeforeInstall ==
    (cliCtx.fn = "install" /\ Len(cliCtx.packages) > 0) =>
        /\ InstallSpawns # {} =>
              /\ Cardinality(ConfigCalls("setupNpmRc")) + Cardinality(ConfigCalls("setupBunfigToml"))
                    + Cardinality(ConfigSetSpawns) = 1
              /\ \A k \in 1..Len(rcLog) : rcLog[k].outcome = "ok"
              /\ \A k \in ConfigSetSpawns :
                    /\ \A i \in InstallSpawns : k < i
                    /\ Len(cliCtx.codes) >= k
                    /\ cliCtx.codes[k] = <<0>>
              /\ IF pmAdapter[1].class = "Bun" /\ ~cliCtx.isNpmrcSupported
                 THEN ConfigCalls("setupBunfigToml") # {}
                 ELSE IF pmAdapter[1].class = "YarnBerry"
                 THEN ConfigSetSpawns # {}
                 ELSE ConfigCalls("setupNpmRc") # {}
        /\ ( \/ \E k \in 1..Len(rcLog) : rcLog[k].outcome # "ok"
             \/ \E k \in ConfigSetSpawns : Len(cliCtx.codes) >= k /\ cliCtx.codes[k] # <<0>> )
              => InstallSpawns = {}

\* C23 witness: yarn berry was asked for its version, then configured with
\* `yarn config set`, which exited with 0, and then `yarn add` was spawned.
C23_Witness ==
    /\ cliCtx.fn = "install"
    /\ Len(cliCtx.packages) > 0
    /\ Len(cliSpawned) = 3
    /\ ConfigSetSpawns = {2}
    /\ InstallSpawns = {3}
    /\ cliCtx.codes = <<<<0>>, <<0>>>>
    /\ rcLog = <<>>

\* The executable of an adapter's own package manager.
ExecutableOf(class) ==
    IF class = "Npm" THEN "npm"
    ELSE IF class \in {"Yarn", "YarnBerry"} THEN "yarn"
    ELSE IF class = "Pnpm" THEN "pnpm"
    ELSE "bun"

\* The subprocesses the adapter's operations spawned (install, remove,
\* runScript, setConfigValue): those whose output is not captured.
AdapterSpawns ==
    { k \in 1..Len(cliSpawned) :
        /\ cliCtx.fn \in {"install", "remove", "runScript"}
        /\ ~cliSpawned[k].captureOutput }

\* C24: every operation of an adapter spawns the executable of the adapter's
\* own package manager: Npm npm, Yarn and YarnBerry yarn, Pnpm pnpm, Bun bun.
C24_OwnExecutable ==
    \A k \in AdapterSpawns :
        /\ pmAdapter # <<>>
        /\ cliSpawned[k].cmd = ExecutableOf(pmAdapter[1].class)

\* C24 failing case: `jsr remove --pnpm @std/fs` has spawned
\* `yarn remove @std/fs`.
C24_Witness ==
    /\ cliArgs = <<<<"r","e","m","o","v","e">>, <<"-","-","p","n","p","m">>, <<"@","s","t","d","/","f","s">>>>
    /\ pmAdapter # <<>>
    /\ pmAdapter[1].class = "Pnpm"
    /\ Len(cliSpawned) = 1
    /\ cliSpawned[1].cmd = "yarn"
    /\ cliSpawned[1].args = <<<<"r","e","m","o","v","e">>, <<"@","s","t","d","/","f","s">>>>

\* How often s occurs in content.
CountOf(s, content) ==
    Cardinality({ i \in 1..(Len(content) - Len(s) + 1) : SubSeq(content, i, i + Len(s) - 1) = s })

BothDone == racePc # <<>> /\ \A p \in Invocations : racePc[p] = "done"

\* C25: when two invocations of setupNpmRc on one directory have both
\* ended, in whatever order their reads and writes were taken, .npmrc holds
\* `@jsr:registry=` once if it did not hold it before (and as often as
\* before if it did), and what the file held before is still its start.
C25_RaceKeepsOneMapping ==
    BothDone =>
        /\ npmrc.st = "file"
        /\ CountOf(JSR_REGISTRY_KEY, npmrc.content) =
              IF CountOf(JSR_REGISTRY_KEY, raceStart.content) = 0 THEN 1
              ELSE CountOf(JSR_REGISTRY_KEY, raceStart.content)
        /\ IsPrefix(raceStart.content, npmrc.content)

\* C25 witness: both invocations read `x=1` before either wrote, both
\* wrote, and the file holds `x=1` and the mapping once.
C25_Witness ==
    /\ BothDone
    /\ raceStart = [st |-> "file", content |-> <<"x","=","1">>]
    /\ \A p \in Invocations : raceContent[p] = raceStart
    /\ npmrc.content = <<"x","=","1","\n">> \o JSR_NPMRC

\* Every line break of content is CRLF (and there is one) / is a lone LF
\* (and there is one).
CrlfFile(content) ==
    /\ \E i \in 1..Len(content) : content[i] = "\n"
    /\ \A i \in 1..Len(content) :
          /\ content[i] = "\n" => (i > 1 /\ content[i - 1] = "\r")
          /\ content[i] = "\r" => (i < Len(content) /\ content[i + 1] = "\n")
LfFile(content) ==
    /\ \E i \in 1..Len(content) : content[i] = "\n"
    /\ \A i \in 1..Len(content) : content[i] # "\r"
\* What a call added after the content it found.
Appended(call) ==
    SubSeq(call.after.content, Len(call.before.content) + 1, Len(call.after.content))

\* C26: a call of setupNpmRc that appends to an .npmrc whose lines end with
\* CRLF adds the mapping line ended by CRLF, after a CRLF if a separator is
\* put in; to an .npmrc whose lines end with LF it adds the mapping line
\* ended by LF, after an LF if a separator is put in.
C26_LineEndingKept ==
    \A k \in NpmRcCalls :
        (rcLog[k].wrote /\ rcLog[k].before.st = "file") =>
            LET old == rcLog[k].before.content
                added == Appended(rcLog[k])
            IN  /\ CrlfFile(old) =>
                      added \in {MappingLine \o <<"\r","\n">>,
                                 <<"\r","\n">> \o MappingLine \o <<"\r","\n">>}
                /\ LfFile(old) =>
                      added \in {MappingLine \o <<"\n">>,
                                 <<"\n">> \o MappingLine \o <<"\n">>}

\* C26 failing case: setupNpmRc ran on the .npmrc `x=1` CRLF and ended the
\* line it added with a lone LF.
C26_Witness ==
    /\ Len(rcLog) >= 1
    /\ rcLog[1].fn = "setupNpmRc"
    /\ rcLog[1].before = [st |-> "file", content |-> <<"x","=","1","\r","\n">>]
    /\ rcLog[1].wrote
    /\ rcLog[1].after.content = <<"x","=","1","\r","\n">> \o MappingLine \o <<"\n">>
    /\ npmrc = rcLog[1].after

\* The command is one that needs no registry: remove, runScript, or install
\* with no package on the command line.
NoRegistryCommand ==
    \/ cliCtx.fn \in {"remove", "runScript"}
    \/ cliCtx.fn = "install" /\ PackageInputs = <<>>

\* C27: remove, runScript and install with no package call neither
\* setupNpmRc nor setupBunfigToml, spawn no `yarn config set`, and leave
\* .npmrc and bunfig.toml as they are in every step they take.
C27_NoRegistrySetup ==
    /\ [](NoRegistryCommand => (rcLog = <<>> /\ ConfigSetSpawns = {}))
    /\ [][NoRegistryCommand' => (npmrc' = npmrc /\ bunfig' = bunfig)]_vars

\* C27 witness: `jsr i --yarn` has ended after its subprocesses (yarn
\* --version, then the install of yarn berry) without any configuration.
C27_Witness ==
    /\ cliArgs = <<<<"i">>, <<"-","-","y","a","r","n">>>>
    /\ cliPc = "exited"
    /\ pmAdapter # Null
    /\ pmAdapter[1].class = "YarnBerry"
    /\ Len(cliSpawned) = 2
    /\ rcLog = <<>>
    /\ ConfigSetSpawns = {}

\* C28: a call of setupBunfigToml that appends to a bunfig.toml it found
\* keeps the content found as the start of the new content, and the
\* `[install.scopes]` block it adds starts at the beginning of a line: at
\* the start of the file or right after a line break.
C28_BlockStartsLine ==
    \A k \in ConfigCalls("setupBunfigToml") :
        (rcLog[k].wrote /\ rcLog[k].before.st = "file") =>
            LET old == rcLog[k].before.content
                new == rcLog[k].after.content
                start == Len(new) - Len(JSR_BUNFIG) + 1
            IN  /\ IsPrefix(old, new)
                /\ start >= 1
                /\ SubSeq(new, start, Len(new)) = JSR_BUNFIG
                /\ start = 1 \/ new[start - 1] = "\n"

\* C28 failing case: setupBunfigToml ran on the bunfig.toml `x=x`, which
\* has no line break at its end, and put `[install.scopes]` on that line.
C28_Witness ==
    /\ Len(rcLog) >= 1
    /\ rcLog[1].fn = "setupBunfigToml"
    /\ rcLog[1].before = [st |-> "file", content |-> <<"x","=","x">>]
    /\ rcLog[1].wrote
    /\ rcLog[1].after.content = <<"x","=","x">> \o JSR_BUNFIG
    /\ bunfig = rcLog[1].after

\* The package the k-th package string of the command line names.
GivenPackage(k) == JsrPackageFrom(PackageInputs[k]).pkg
\* YarnBerry.install has started its lookups.
InToPackageArgs == cliCtx.lookups # <<>>
\* `yarn add` as YarnBerry.install spawns it.
YarnAddSpawns == { k \in InstallSpawns : pmAdapter # Null /\ pmAdapter[1].class = "YarnBerry" }

\* C29: in YarnBerry.install every package without a version gets a
\* lookup and no other does; a package with a version stays as it was
\* given, a package without one stays so until its lookup has resolved and
\* is `^<latest>` from then on; `yarn add` is spawned only when no lookup is
\* pending and none has failed, with the packages as they are then; after a
\* lookup that failed no `yarn add` is spawned.
C29_AddAfterAllLookups ==
    InToPackageArgs =>
        /\ Len(cliCtx.lookups) = Len(PackageInputs)
        /\ Len(cliCtx.packages) = Len(PackageInputs)
        /\ \A k \in 1..Len(PackageInputs) :
              /\ GivenPackage(k).version # Null =>
                    (cliCtx.lookups[k] = "none" /\ cliCtx.packages[k] = GivenPackage(k))
              /\ GivenPackage(k).version = Null =>
                    /\ cliCtx.lookups[k] \in {"pending", "resolved", "rejected"}
                    /\ cliCtx.lookups[k] \in {"pending", "rejected"} =>
                          cliCtx.packages[k] = GivenPackage(k)
                    /\ cliCtx.lookups[k] = "resolved" =>
                          \E v \in LatestVersions :
                              cliCtx.packages[k] =
                                  [GivenPackage(k) EXCEPT !.version = Some(<<"^">> \o v)]
        /\ YarnAddSpawns # {} =>
              /\ \A k \in 1..Len(cliCtx.lookups) : cliCtx.lookups[k] \in {"none", "resolved"}
              /\ \A s \in YarnAddSpawns :
                    PackageArgsOf(cliSpawned[s].args) = ToPackageArgs(cliCtx.packages)
        /\ (\E k \in 1..Len(cliCtx.lookups) : cliCtx.lookups[k] = "rejected") =>
              /\ YarnAddSpawns = {}
              /\ cliPc = "uncaught"

\* C29 witness: `jsr i --yarn @a/b @a/c@1` style command line with one
\* package with a version and one without, whose lookup has resolved, and
\* `yarn add` spawned after it.
C29_Witness ==
    /\ InToPackageArgs
    /\ Len(PackageInputs) = 2
    /\ \E k \in 1..2 : cliCtx.lookups[k] = "none"
    /\ \E k \in 1..2 : cliCtx.lookups[k] = "resolved"
    /\ YarnAddSpawns # {}

\* A lookup has failed while another was still pending.
LookupFailedWhilePending ==
    /\ InToPackageArgs
    /\ \E k \in 1..Len(cliCtx.lookups) : cliCtx.lookups[k] = "rejected"
    /\ \E k \in 1..Len(cliCtx.lookups) : cliCtx.lookups[k] = "pending"

\* The directories the walk visited above the project directory that
\* qualify as a workspace root: a package.json with a workspaces array, or
\* a package.json with a pnpm-workspace.yaml beside it.
QualifyingRoots ==
    { d \in 0..fpCwd :
        /\ fpResult.pkgJsonPath # Null
        /\ d < fpResult.projectDir
        /\ FsIndex(d) <= Visited
        /\ FsIndex(d) <= Len(fs)
        /\ "package.json" \in fs[FsIndex(d)].files
        /\ \/ fs[FsIndex(d)].workspaces # "none"
           \/ "pnpm-workspace.yaml" \in fs[FsIndex(d)].files }

\* C30: findProjectDir returns as root the outermost (closest to the file
\* system root) of the directories it visited above the project directory
\* that qualify as a workspace root, and null if there is none.
C30_OutermostRootWins ==
    fpPc = "returned" =>
        IF QualifyingRoots = {} THEN fpResult.root = Null
        ELSE /\ fpResult.root # Null
             /\ fpResult.root[1] \in QualifyingRoots
             /\ \A d \in QualifyingRoots : fpResult.root[1] <= d

\* C30 witness: the parent of the project directory and the directory above
\* it both qualify, the walk visited both, and the upper one is root.
C30_Witness ==
    /\ fpPc = "returned"
    /\ fpCwd = 2
    /\ fpResult.projectDir = 2
    /\ QualifyingRoots = {0, 1}
    /\ fpResult.root = <<0>>

====
